---- MODULE Spec2Model ----
(***************************************************************************)
(* Drift Guardian: the drift orchestration engine                          *)
(* (internal/service/drift.go, internal/service/threshold.go), the Redis   *)
(* repository it writes to (internal/repository/redis.go) and the GitLab   *)
(* client it drives (package client), modelled as a state machine.         *)
(*                                                                         *)
(* Strings that the code parses with strconv.Atoi or builds with           *)
(* strconv.Itoa (driftThreshold, projectID, issueID) are sequences of      *)
(* one-character strings, so that parsing and formatting are computed.     *)
(* Every other string is a TLA+ string.                                    *)
(***************************************************************************)
EXTENDS Integers, Sequences, FiniteSets, TLC

\* ------------------------------------------------------------------------
\* Bounds of the model
\* ------------------------------------------------------------------------

\* largest driftIncrement a report may produce
MaxDrift == 2

\* largest number of issues in the tracker
MaxIssues == 2

\* ------------------------------------------------------------------------
\* Configuration (package config, LoadConfig defaults)
\* ------------------------------------------------------------------------

ComparisonBranch == "main"

ConfigDriftThreshold == 1

\* ------------------------------------------------------------------------
\* strconv.Atoi and strconv.Itoa on character sequences
\* ------------------------------------------------------------------------

DigitChars == <<"0", "1", "2", "3", "4", "5", "6", "7", "8", "9">>

IsDigit(ch) == \E i \in 1..10 : DigitChars[i] = ch

DigitVal(ch) == (CHOOSE i \in 1..10 : DigitChars[i] = ch) - 1

RECURSIVE DigitsVal(_)
DigitsVal(s) ==
    IF Len(s) = 0 THEN 0
    ELSE 10 * DigitsVal(SubSeq(s, 1, Len(s) - 1)) + DigitVal(s[Len(s)])

\* the largest magnitudes of an int (64 bits): 2^63 - 1 and 2^63
MaxIntDigits ==
    <<"9", "2", "2", "3", "3", "7", "2", "0", "3", "6",
      "8", "5", "4", "7", "7", "5", "8", "0", "7">>

MinIntDigits ==
    <<"9", "2", "2", "3", "3", "7", "2", "0", "3", "6",
      "8", "5", "4", "7", "7", "5", "8", "0", "8">>

\* leading zeros do not count towards the magnitude
RECURSIVE StripZeros(_)
StripZeros(s) ==
    IF Len(s) > 1 /\ s[1] = "0" THEN StripZeros(Tail(s)) ELSE s

\* a <= b for digit sequences without leading zeros
RECURSIVE DigitsLeq(_, _)
DigitsLeq(a, b) ==
    IF Len(a) # Len(b) THEN Len(a) < Len(b)
    ELSE IF Len(a) = 0 THEN TRUE
    ELSE IF a[1] # b[1] THEN DigitVal(a[1]) < DigitVal(b[1])
    ELSE DigitsLeq(Tail(a), Tail(b))

\* fewer than 19 characters always fit (the fast path of strconv.Atoi);
\* else strconv.ParseInt's range check for bitSize 0
InRange(body, neg) ==
    \/ Len(body) < 19
    \/ DigitsLeq(StripZeros(body), IF neg THEN MinIntDigits ELSE MaxIntDigits)

\* strconv.Atoi: an optional sign, then one or more decimal digits, of a
\* value that fits an int; ErrSyntax and ErrRange are both "not ok"
Atoi(s) ==
    LET signed == Len(s) > 0 /\ s[1] \in {"+", "-"}
        neg    == signed /\ s[1] = "-"
        body   == IF signed THEN Tail(s) ELSE s
    IN  IF Len(body) = 0 \/ \E i \in 1..Len(body) : ~IsDigit(body[i])
        THEN [ok |-> FALSE, val |-> 0]
        ELSE IF ~InRange(body, neg) THEN [ok |-> FALSE, val |-> 0]
        ELSE [ok |-> TRUE,
              val |-> IF neg THEN 0 - DigitsVal(body) ELSE DigitsVal(body)]

RECURSIVE NatToDigits(_)
NatToDigits(n) ==
    IF n < 10 THEN <<DigitChars[n + 1]>>
    ELSE Append(NatToDigits(n \div 10), DigitChars[(n % 10) + 1])

\* strconv.Itoa
Itoa(n) == IF n < 0 THEN <<"-">> \o NatToDigits(0 - n) ELSE NatToDigits(n)

\* ------------------------------------------------------------------------
\* Keys
\* ------------------------------------------------------------------------

\* a key without delimiter when there is no environment
GenerateKeyBare(repoName, environment) ==
    IF environment = "" THEN repoName ELSE repoName \o ":" \o environment

\* a key that leaves the environment out
GenerateKeyRepoOnly(repoName, environment) == repoName \o ":"

GenerateKey(repoName, environment) == repoName \o ":" \o environment

Repos == {"svc"}

Environments == {"prod"}

Keys == {GenerateKey(r, e) : r \in Repos, e \in Environments}

\* ------------------------------------------------------------------------
\* The store: one Redis hash per key.  exists is FALSE while the hash has
\* no field at all; a field that was never written reads as empty.
\* ------------------------------------------------------------------------

NoUrl == <<>>

EmptyHash ==
    [exists |-> FALSE, driftThreshold |-> <<>>, environmentTier |-> "",
     projectID |-> <<>>, driftIncrement |-> 0, log |-> <<>>,
     planOutput |-> "", issueID |-> <<>>, issueURL |-> NoUrl]

\* EXISTS key
Exists(st, key) == st[key].exists

\* fallback of InitializeEnvironment when it is handed an empty threshold:
\* os.Getenv("DEFAULT_DRIFT_THRESHOLD"), unset in the model, then "1"
FallbackThreshold == <<"1">>

\* HMSET key driftThreshold .. environmentTier .. projectID .. driftIncrement 0
HMSetInit(st, key, tier, projectID, threshold) ==
    [st EXCEPT ![key] = [@ EXCEPT !.exists = TRUE,
                                  !.driftThreshold = threshold,
                                  !.environmentTier = tier,
                                  !.projectID = projectID,
                                  !.driftIncrement = 0]]

\* the log entry {"timestamp": "%s", "operation": "%s"}
LogEntry(timestamp, operation) == <<timestamp, operation>>

\* a log write that keeps an entry the record already has
HMSetLogOnce(st, key, timestamp, operation) ==
    IF st[key].log # <<>> THEN st
    ELSE [st EXCEPT ![key] = [@ EXCEPT !.exists = TRUE,
                                       !.log = LogEntry(timestamp, operation)]]

\* HMSET key log entry
HMSetLog(st, key, timestamp, operation) ==
    [st EXCEPT ![key] = [@ EXCEPT !.exists = TRUE,
                                  !.log = LogEntry(timestamp, operation)]]

\* HINCRBY key driftIncrement 1
HIncrByDrift(st, key) ==
    [st EXCEPT ![key] = [@ EXCEPT !.exists = TRUE,
                                  !.driftIncrement = @ + 1]]

\* a reset that takes one off the counter
HSetDriftDecrement(st, key) ==
    [st EXCEPT ![key] = [@ EXCEPT !.exists = TRUE,
                                  !.driftIncrement = IF @ > 0 THEN @ - 1 ELSE 0]]

\* HSET key driftIncrement 0
HSetDriftZero(st, key) ==
    [st EXCEPT ![key] = [@ EXCEPT !.exists = TRUE, !.driftIncrement = 0]]

\* a write of planOutput that appends to the stored value
HSetPlanOutputAppend(st, key, planOutput) ==
    [st EXCEPT ![key] = [@ EXCEPT !.exists = TRUE,
                                  !.planOutput = @ \o planOutput]]

\* HSET key planOutput value
HSetPlanOutput(st, key, planOutput) ==
    [st EXCEPT ![key] = [@ EXCEPT !.exists = TRUE, !.planOutput = planOutput]]

\* a write of issueID that is lost
HSetIssueIDLost(st, key, value) == st

\* a write of issueID that goes to the record of every key
HSetIssueIDEverywhere(st, key, value) ==
    [k \in DOMAIN st |-> [st[k] EXCEPT !.exists = TRUE, !.issueID = value]]

\* HSET key issueID value
HSetIssueID(st, key, value) ==
    [st EXCEPT ![key] = [@ EXCEPT !.exists = TRUE, !.issueID = value]]

\* HSET key issueURL value
HSetIssueURL(st, key, value) ==
    [st EXCEPT ![key] = [@ EXCEPT !.exists = TRUE, !.issueURL = value]]

\* ------------------------------------------------------------------------
\* The issue tracker: per project, the issues in creation order.  The
\* issue id the client reads ("iid") is the issue's position in the
\* project.  by is the key whose report made the engine create the issue.
\* ------------------------------------------------------------------------

TrackerProjects == {1, 2}

\* web_url of the issue
WebURL(project, iid) == <<project, iid>>

\* the description CreateDriftIssue and UpdateIssueDescription format
Description(environment, driftIncrement, threshold, planOutput, verb) ==
    [environment |-> environment, drift |-> driftIncrement,
     threshold |-> threshold, planOutput |-> planOutput]

IssueExists(tr, project, iid) ==
    project \in DOMAIN tr /\ iid \in 1..Len(tr[project])

\* GET /projects/:id/issues/:iid, then State == "opened"
IssueIsOpen(tr, project, iid) ==
    IssueExists(tr, project, iid) /\ tr[project][iid].state = "opened"

\* POST /projects/:id/issues
PostIssue(tr, project, title, description, key) ==
    [tr EXCEPT ![project] = Append(@, [state |-> "opened", title |-> title,
                                       desc |-> description, by |-> key])]

\* PUT /projects/:id/issues/:iid with a description
PutDescription(tr, project, iid, description) ==
    [tr EXCEPT ![project][iid].desc = description]

\* PUT /projects/:id/issues/:iid with state_event close
PutClose(tr, project, iid) ==
    [tr EXCEPT ![project][iid].state = "closed"]

\* ------------------------------------------------------------------------
\* One report in progress: the store and the tracker as the calls made so
\* far left them, the calls in order, and the error that stopped it.
\* fault is the position of the call that fails (0: none fails); with a
\* fault of -n the n-th call is carried out by the tracker and its answer
\* is lost or cannot be read.
\* ------------------------------------------------------------------------

StoreCall(op) == [op |-> op, tracker |-> FALSE, project |-> 0, iid |-> 0]

TrackerCall(op, project, iid) ==
    [op |-> op, tracker |-> TRUE, project |-> project, iid |-> iid]

Begin(st, tr, fault) ==
    [store |-> st, tracker |-> tr, calls |-> <<>>, err |-> "", fault |-> fault]

\* the next call is the one that fails
Fails(c) == Len(c.calls) + 1 = c.fault

\* the next call is the one whose answer is lost
FailsLate(c) == Len(c.calls) + 1 = 0 - c.fault

Made(c, call) == [c EXCEPT !.calls = Append(@, call)]

Failed(c, call, err) == [Made(c, call) EXCEPT !.err = err]

Error(c, err) == [c EXCEPT !.err = err]

\* ------------------------------------------------------------------------
\* RedisRepository
\* ------------------------------------------------------------------------

\* InitializeEnvironment, the EXISTS: the answer is Exists(c.store, key)
CheckExists(c) ==
    IF Fails(c) THEN Failed(c, StoreCall("Exists"), "error checking hash existence")
    ELSE Made(c, StoreCall("Exists"))

\* InitializeEnvironment, the HMSET of the initial hash of a key that the
\* EXISTS did not find
InitializeEnvironment(c, key, tier, projectID, threshold) ==
    LET thr == IF threshold = <<>> THEN FallbackThreshold ELSE threshold
    IN  IF Fails(c)
        THEN Failed(c, StoreCall("HMSetInit"), "error initializing environment hash")
        ELSE [Made(c, StoreCall("HMSetInit")) EXCEPT
                 !.store = HMSetInit(@, key, tier, projectID, thr)]

UpdateOperationLog(c, key, timestamp, operation) ==
    IF Fails(c) THEN Failed(c, StoreCall("HMSetLog"), "error updating operation log")
    ELSE [Made(c, StoreCall("HMSetLog")) EXCEPT
             !.store = HMSetLog(@, key, timestamp, operation)]

IncrementDrift(c, key) ==
    IF Fails(c) THEN Failed(c, StoreCall("HIncrBy"), "error incrementing drift")
    ELSE [Made(c, StoreCall("HIncrBy")) EXCEPT !.store = HIncrByDrift(@, key)]

ResetDrift(c, key) ==
    IF Fails(c) THEN Failed(c, StoreCall("HSetDrift"), "error resetting drift")
    ELSE [Made(c, StoreCall("HSetDrift")) EXCEPT !.store = HSetDriftZero(@, key)]

StorePlanOutput(c, key, planOutput) ==
    IF Fails(c) THEN Failed(c, StoreCall("HSetPlanOutput"), "error storing plan output")
    ELSE [Made(c, StoreCall("HSetPlanOutput")) EXCEPT
             !.store = HSetPlanOutput(@, key, planOutput)]

\* GetField: the state after the HGET; the value is c.store[key][field]
GetField(c, field) ==
    IF Fails(c) THEN Failed(c, StoreCall("HGet:" \o field), "error getting field")
    ELSE Made(c, StoreCall("HGet:" \o field))

SetIssueID(c, key, value) ==
    IF Fails(c) THEN Failed(c, StoreCall("HSet:issueID"), "error setting field issueID")
    ELSE [Made(c, StoreCall("HSet:issueID")) EXCEPT !.store = HSetIssueID(@, key, value)]

SetIssueURL(c, key, value) ==
    IF Fails(c) THEN Failed(c, StoreCall("HSet:issueURL"), "error setting field issueURL")
    ELSE [Made(c, StoreCall("HSet:issueURL")) EXCEPT !.store = HSetIssueURL(@, key, value)]

\* GetEnvironmentData: HGETALL, an error when the hash has no field
GetEnvironmentData(c, key) ==
    IF Fails(c) THEN Failed(c, StoreCall("HGetAll"), "error retrieving environment data")
    ELSE LET c1 == Made(c, StoreCall("HGetAll"))
         IN  IF ~Exists(c.store, key) THEN Error(c1, "no data found for key") ELSE c1

\* ------------------------------------------------------------------------
\* GitLabClient
\* ------------------------------------------------------------------------

\* a reading of the reply that takes a 404 for an error
IssueStatusOfReplyStrict(statusCode, state) ==
    IF statusCode < 200 \/ statusCode >= 300
    THEN [open |-> FALSE, err |-> "received non-success status code"]
    ELSE [open |-> state = "opened", err |-> ""]

\* GetIssueStatus from the reply on: a 404 is not open and no error, another
\* status outside 200..299 an error, else the issue's state decides
IssueStatusOfReply(statusCode, state) ==
    IF statusCode = 404 THEN [open |-> FALSE, err |-> ""]
    ELSE IF statusCode < 200 \/ statusCode >= 300
    THEN [open |-> FALSE, err |-> "received non-success status code"]
    ELSE [open |-> state = "opened", err |-> ""]

\* GetIssueStatus: the state after the GET; the answer is
\* IssueIsOpen(c.tracker, project, iid), a 404 reading as not open
GetIssueStatus(c, project, iid) ==
    IF Fails(c) THEN Failed(c, TrackerCall("GetIssue", project, iid), "status check failed")
    ELSE Made(c, TrackerCall("GetIssue", project, iid))

\* CreateIssue; the new issue's id is Len(c.tracker[project]) + 1.  The
\* POST is refused, or it is answered 2xx and the body does not decode (the
\* issue exists and CreateIssue returns an error), or it succeeds.
CreateIssue(c, project, title, description, key) ==
    IF Fails(c) \/ project \notin DOMAIN c.tracker
    THEN Failed(c, TrackerCall("PostIssue", project, 0), "received non-success status code")
    ELSE IF FailsLate(c)
    THEN [Failed(c, TrackerCall("PostIssue", project, Len(c.tracker[project]) + 1),
                 "error decoding response") EXCEPT
             !.tracker = PostIssue(@, project, title, description, key)]
    ELSE [Made(c, TrackerCall("PostIssue", project, Len(c.tracker[project]) + 1)) EXCEPT
             !.tracker = PostIssue(@, project, title, description, key)]

\* a creation that first searches the project for an open issue of the key
\* and answers with that issue when it finds one
CreateDriftIssueUnlessOpen(c, project, environment, driftIncrement, threshold, planOutput, key) ==
    IF /\ project \in DOMAIN c.tracker
       /\ \E i \in 1..Len(c.tracker[project]) :
              c.tracker[project][i].state = "opened" /\ c.tracker[project][i].by = key
    THEN Made(c, TrackerCall("PostIssue", project,
                  CHOOSE i \in 1..Len(c.tracker[project]) :
                      /\ c.tracker[project][i].state = "opened"
                      /\ c.tracker[project][i].by = key))
    ELSE CreateIssue(c, project, "Drift: " \o environment,
                     Description(environment, driftIncrement, threshold, planOutput, "created"),
                     key)

CreateDriftIssue(c, project, environment, driftIncrement, threshold, planOutput, key) ==
    CreateIssue(c, project, "Drift: " \o environment,
                Description(environment, driftIncrement, threshold, planOutput, "created"),
                key)

UpdateIssueDescription(c, project, iid, environment, driftIncrement, threshold, planOutput) ==
    IF Fails(c) \/ ~IssueExists(c.tracker, project, iid)
    THEN Failed(c, TrackerCall("PutDescription", project, iid), "received non-success status code")
    ELSE [Made(c, TrackerCall("PutDescription", project, iid)) EXCEPT
             !.tracker = PutDescription(@, project, iid,
                 Description(environment, driftIncrement, threshold, planOutput, "updated"))]

\* CloseIssue, the comment: its failure is ignored
AddComment(c, project, iid) ==
    [Made(c, TrackerCall("PostNote", project, iid)) EXCEPT !.err = ""]

\* a close whose failure is ignored as the comment's is
CloseIssueBestEffort(c, project, iid) ==
    IF Fails(c) \/ ~IssueExists(c.tracker, project, iid)
    THEN Made(c, TrackerCall("PutClose", project, iid))
    ELSE [Made(c, TrackerCall("PutClose", project, iid)) EXCEPT
             !.tracker = PutClose(@, project, iid)]

\* CloseIssue, the close that follows the comment
CloseIssue(c, project, iid) ==
    IF Fails(c) \/ ~IssueExists(c.tracker, project, iid)
    THEN Failed(c, TrackerCall("PutClose", project, iid),
                "received non-success status code for close")
    ELSE [Made(c, TrackerCall("PutClose", project, iid)) EXCEPT
             !.tracker = PutClose(@, project, iid)]

\* ------------------------------------------------------------------------
\* ThresholdManagerImpl
\* ------------------------------------------------------------------------

\* a threshold that falls back to the default for any text that is no number
ThresholdValueLenient(st, key) ==
    IF st[key].driftThreshold = <<>> \/ ~Atoi(st[key].driftThreshold).ok
    THEN [ok |-> TRUE, val |-> ConfigDriftThreshold]
    ELSE Atoi(st[key].driftThreshold)

\* the value GetThreshold returns on the stored field: the configured
\* default when the field is empty, else its strconv.Atoi
ThresholdValue(st, key) ==
    IF st[key].driftThreshold = <<>>
    THEN [ok |-> TRUE, val |-> ConfigDriftThreshold]
    ELSE Atoi(st[key].driftThreshold)

GetThreshold(c, key) ==
    LET c1 == GetField(c, "driftThreshold")
    IN  IF c1.err # "" THEN c1
        ELSE IF ~ThresholdValue(c.store, key).ok
        THEN Error(c1, "invalid threshold value")
        ELSE c1

\* a threshold test that any count passes
ExceededAlways(st, key, currentDrift) == currentDrift >= 0

\* a threshold test that needs the count to pass the threshold
ExceededStrictly(st, key, currentDrift) == currentDrift > ThresholdValue(st, key).val

\* the boolean CheckThreshold returns when GetThreshold succeeded
Exceeded(st, key, currentDrift) == currentDrift >= ThresholdValue(st, key).val

CheckThreshold(c, key, currentDrift) == GetThreshold(c, key)

\* ------------------------------------------------------------------------
\* DriftServiceImpl
\* ------------------------------------------------------------------------

\* a validation that does not look at branchName
ValidatePayloadNoBranch(payload) ==
    IF payload.RepoName = "" THEN "missing repoName in payload"
    ELSE IF payload.Environment = "" THEN "missing environment in payload"
    ELSE IF payload.EnvironmentTier = "" THEN "missing environmentTier in payload"
    ELSE IF payload.ProjectID = <<>> THEN "missing projectId in payload"
    ELSE IF payload.Operation = "" THEN "invalid terraform operation in payload"
    ELSE ""

\* a validation that does not look at environmentTier
ValidatePayloadNoTier(payload) ==
    IF payload.RepoName = "" THEN "missing repoName in payload"
    ELSE IF payload.Branch = "" THEN "missing branchName in payload"
    ELSE IF payload.Environment = "" THEN "missing environment in payload"
    ELSE IF payload.ProjectID = <<>> THEN "missing projectId in payload"
    ELSE IF payload.Operation = "" THEN "invalid terraform operation in payload"
    ELSE ""

ValidatePayload(payload) ==
    IF payload.RepoName = "" THEN "missing repoName in payload"
    ELSE IF payload.Branch = "" THEN "missing branchName in payload"
    ELSE IF payload.Environment = "" THEN "missing environment in payload"
    ELSE IF payload.EnvironmentTier = "" THEN "missing environmentTier in payload"
    ELSE IF payload.ProjectID = <<>> THEN "missing projectId in payload"
    ELSE IF payload.Operation = "" THEN "invalid terraform operation in payload"
    ELSE ""

\* IsEscalation without the test of the scheduled flag
IsEscalationAnyRun(payload) ==
    /\ payload.Operation = "plan"
    /\ payload.ExitCode = 2
    /\ payload.Branch = ComparisonBranch

\* the condition of the drift increment
IsEscalation(payload) ==
    /\ payload.Scheduled
    /\ payload.Operation = "plan"
    /\ payload.ExitCode = 2
    /\ payload.Branch = ComparisonBranch

\* IsResolution that takes only a successful apply
IsResolutionOnSuccess(payload) ==
    /\ payload.ExitCode = 0
    /\ \/ payload.Operation = "apply"
       \/ payload.Operation = "plan" /\ payload.Branch = ComparisonBranch

\* the condition of the reset
IsResolution(payload) ==
    \/ payload.Operation = "apply"
    \/ /\ payload.Operation = "plan"
       /\ payload.ExitCode = 0
       /\ payload.Branch = ComparisonBranch

EnvironmentInfo(payload, key) ==
    [RepoName |-> payload.RepoName, Environment |-> payload.Environment,
     ProjectID |-> payload.ProjectID, Key |-> key]

\* time.Now().Format(time.RFC3339)
Now == "now"

\* the DriftResult read back from the record
DriftResult(st, key) ==
    [EnvironmentTier |-> st[key].environmentTier,
     ProjectID       |-> st[key].projectID,
     DriftIncrement  |-> Itoa(st[key].driftIncrement),
     IssueID         |-> st[key].issueID,
     IssueURL        |-> st[key].issueURL,
     Log             |-> st[key].log]

\* ------------------------------------------------------------------------
\* Reports
\* ------------------------------------------------------------------------

Branches == {"main", "dev"}

Operations == {"plan", "apply", "destroy"}

ExitCodes == {0, 1, 2}

\* reports with the given decision fields and the given other fields
Reports(branches, operations, exitCodes, scheduled, tiers, thresholds,
        projectIDs, timestamps, planOutputs) ==
    [RepoName : Repos, Branch : branches, Environment : Environments,
     EnvironmentTier : tiers, DriftThreshold : thresholds,
     ProjectID : projectIDs, Operation : operations, ExitCode : exitCodes,
     Scheduled : scheduled, Timestamp : timestamps, PlanOutput : planOutputs]

\* every combination of branch, operation, exit code and scheduled flag
PlainReports ==
    Reports(Branches, Operations, ExitCodes, BOOLEAN,
            {"prod"}, {<<>>}, {<<"1">>}, {"t1"}, {""})

\* the scheduled plan with changes on the comparison branch, for another
\* project and with a threshold of its own
EscalatingReports ==
    Reports({"main"}, {"plan"}, {2}, {TRUE},
            {"prod"}, {<<>>}, {<<"1">>, <<"2">>}, {"t1"}, {""})
    \cup Reports({"main"}, {"plan"}, {2}, {TRUE},
                 {"prod"}, {<<"2">>}, {<<"1">>}, {"t1"}, {""})

\* the apply for another project
ResolvingReports ==
    Reports({"main"}, {"apply"}, {0}, {FALSE},
            {"prod"}, {<<>>}, {<<"1">>, <<"2">>}, {"t1"}, {""})

\* reports of another tier, project and threshold, without timestamp
OtherIdentityReports ==
    Reports({"main"}, {"plan"}, {1, 2}, {TRUE},
            {"nonprod"}, {<<"2">>}, {<<"2">>}, {""}, {""})
    \cup Reports({"main"}, {"apply"}, {0}, {TRUE},
                 {"nonprod"}, {<<"2">>}, {<<"2">>}, {""}, {""})

\* a report without operation
InvalidReports ==
    Reports({"main"}, {""}, {2}, {TRUE},
            {"prod"}, {<<>>}, {<<"1">>}, {"t1"}, {""})

Payloads ==
    EscalatingReports \cup ResolvingReports
    \cup OtherIdentityReports \cup InvalidReports

NoPayload ==
    [RepoName |-> "", Branch |-> "", Environment |-> "", EnvironmentTier |-> "",
     DriftThreshold |-> <<>>, ProjectID |-> <<>>, Operation |-> "",
     ExitCode |-> 0, Scheduled |-> FALSE, Timestamp |-> "", PlanOutput |-> ""]

\* ------------------------------------------------------------------------
\* State
\* ------------------------------------------------------------------------

VARIABLES
    store,      \* key -> hash
    tracker,    \* project -> issues
    last,       \* the last step taken: the request, its call, its answer
                \* once it has one; and, while the steps since the receipt
                \* of the request were all its own, the calls it has made
                \* and the store and the tracker as they were at its receipt
    hist,       \* per key, what the reports received so far were
    procs       \* per request in progress: the call it makes next and the
                \* values it has read

vars == <<store, tracker, last, hist, procs>>

\* The requests the server processes at the same time: net/http serves
\* every request on a goroutine of its own, and nothing in the handler, the
\* service or the repository holds a lock, so the calls of two requests to
\* the store and to the tracker interleave in any order.
Procs == {1, 2}

\* a goroutine that serves no request
Idle ==
    [pc |-> "idle", payload |-> NoPayload, overlaps |-> 0, failed |-> FALSE,
     incrementVal |-> 0, issueID |-> <<>>, planOutput |-> "",
     thresholdValue |-> 0, iid |-> 0]

NoStep(act) ==
    [act |-> act, p |-> 0, payload |-> NoPayload, fault |-> 0,
     status |-> 0, err |-> "", calls |-> <<>>, before |-> 0,
     alone |-> FALSE, again |-> FALSE, store0 |-> <<>>, tracker0 |-> <<>>]

\* nothing received yet for a key
NoHistory ==
    [reports |-> 0, first |-> <<"", "">>, run |-> 0, fresh |-> TRUE,
     whole |-> TRUE, serial |-> TRUE]

Init ==
    /\ store = [k \in Keys |-> EmptyHash]
    /\ tracker = [p \in TrackerProjects |-> <<>>]
    /\ last = NoStep("init")
    /\ hist = [k \in Keys |-> NoHistory]
    /\ procs = [p \in Procs |-> Idle]

RECURSIVE SumLen(_, _)
SumLen(tr, ps) ==
    IF ps = {} THEN 0
    ELSE LET p == CHOOSE q \in ps : TRUE
         IN  Len(tr[p]) + SumLen(tr, ps \ {p})

WithinBounds(c) ==
    /\ \A k \in DOMAIN c.store : c.store[k].driftIncrement <= MaxDrift
    /\ SumLen(c.tracker, TrackerProjects) <= MaxIssues

\* a scheduled plan that found changes on the comparison branch
ScheduledDriftPlan(pl) ==
    /\ pl.Scheduled = TRUE
    /\ pl.Operation = "plan"
    /\ pl.ExitCode = 2
    /\ pl.Branch = "main"

\* an apply, or a plan without changes on the comparison branch
ResolvingRun(pl) ==
    \/ pl.Operation = "apply"
    \/ (pl.Operation = "plan" /\ pl.ExitCode = 0 /\ pl.Branch = "main")

\* no request is in progress
Quiet == \A p \in Procs : procs[p].pc = "idle"

\* the history of key k after the receipt of a report pl that passed
\* validation: reports counts the reports, first holds the repository and
\* the environment of the first, run counts the drift plans since the last
\* resolving run,
\* fresh says that only drift plans were received so far, serial that no
\* report was received while another request was in progress; whole, that
\* no call of a report for the key failed, is withdrawn by the failing
\* call, and the count ends with it
Recorded(h, pl) ==
    [reports |-> h.reports + 1,
     first  |-> IF h.reports = 0 THEN <<pl.RepoName, pl.Environment>> ELSE h.first,
     run    |-> IF ResolvingRun(pl) \/ ~h.whole THEN 0
                ELSE IF ScheduledDriftPlan(pl) THEN h.run + 1 ELSE h.run,
     fresh  |-> h.fresh /\ ScheduledDriftPlan(pl),
     whole  |-> h.whole,
     serial |-> h.serial /\ Quiet]

\* ------------------------------------------------------------------------
\* One request: HandleEnvironments validates the report and runs
\* ProcessDriftDetection, which makes one call to the store or to the
\* tracker after the other.  A step of a request is one such call together
\* with the computation that follows it up to the next call; pc names the
\* call the request makes next.  Between two steps of a request the other
\* request can take any number of steps.
\* ------------------------------------------------------------------------

\* the reports that are received and pass validation
MaxReports == 4

RECURSIVE SumReports(_)
SumReports(ks) ==
    IF ks = {} THEN 0
    ELSE LET k == CHOOSE q \in ks : TRUE
         IN  hist[k].reports + SumReports(ks \ {k})

\* the reports received so far that passed validation
Received == SumReports(DOMAIN hist)

\* the requests that are received while another request is in progress
MaxOverlaps == 1

\* the reports that are served while another request is in progress, and
\* during which another request is received: the drift plan, with and
\* without plan output, and the apply, of project 1
Concurrent(pl) ==
    /\ pl.Branch = "main" /\ pl.EnvironmentTier = "prod"
    /\ pl.DriftThreshold = <<>> /\ pl.ProjectID = <<"1">>
    /\ pl.Timestamp = "t1" /\ pl.PlanOutput \in {"", "o1"}
    /\ \/ pl.Operation = "plan" /\ pl.ExitCode = 2 /\ pl.Scheduled = TRUE
       \/ pl.Operation = "apply" /\ pl.ExitCode = 0 /\ pl.Scheduled = FALSE

\* the requests in progress that are going to increment the count of key
Pending(key) ==
    Cardinality({q \in Procs :
                    /\ procs[q].pc \in {"Exists", "HMSetInit", "HMSetLog", "HIncrBy"}
                    /\ IsEscalation(procs[q].payload)
                    /\ GenerateKey(procs[q].payload.RepoName,
                                   procs[q].payload.Environment) = key})

\* the requests received so far while another request was in progress
Overlaps == procs[1].overlaps + procs[2].overlaps

PKey(p) == GenerateKey(procs[p].payload.RepoName, procs[p].payload.Environment)

PEnv(p) == EnvironmentInfo(procs[p].payload, PKey(p))

\* The outcome of a call: 0, it succeeds; 1, it fails without effect; -1,
\* it is carried out and its answer cannot be read.  A request is cut short
\* by the first call that fails; the calls whose failure the code ignores
\* let it go on, and none of its later calls fails.
CallOutcomes == {0, 1, 0 - 1}

\* request p was received while no request was in progress, and every
\* step since was a call of p: nothing else has touched the store or the
\* tracker since, and no other request is in progress
Undisturbed(p) == last.p = p /\ last.alone /\ last.act \in {"receive", "step"}

\* the request p about to make a call with the given outcome; the calls
\* are those made since its receipt when it is undisturbed, else none
Ctx(p, outcome) ==
    LET calls == IF Undisturbed(p) THEN last.calls ELSE <<>>
    IN  [store |-> store, tracker |-> tracker, calls |-> calls, err |-> "",
         fault |-> outcome * (Len(calls) + 1)]

\* the answer that HandleEnvironments writes for everything
AnswerAlwaysSuccess(err) == 200

\* the answer of HandleEnvironments to what ProcessDriftDetection returned
Answer(err) == IF err = "" THEN 200 ELSE 500

\* a store from which the writes of a request that ends with an error are
\* taken back: the increment and the log entry
StoreAfterAllOrNothing(p, c) ==
    IF c.err # ""
    THEN [c.store EXCEPT ![PKey(p)] =
             [@ EXCEPT !.log = <<>>,
                       !.driftIncrement = IF procs[p].incrementVal > 0 /\ @ > 0
                                          THEN @ - 1 ELSE @]]
    ELSE c.store

\* the store when HandleEnvironments has answered: as the calls left it
StoreAfter(p, c) == c.store

\* the goroutine of request p after the answer
Answered(p) == [Idle EXCEPT !.overlaps = procs[p].overlaps]

\* Request p has made the call that led to c and goes on as r says; it is
\* answered when the call returned an error that is not ignored, and after
\* its last call.
Took(p, c, r) ==
    LET over == c.err # "" \/ r.pc = "idle"
    IN  /\ WithinBounds(c)
        /\ store' = IF over THEN StoreAfter(p, c) ELSE c.store
        /\ tracker' = c.tracker
        /\ last' = [act |-> IF over THEN "report" ELSE "step",
                    p |-> p, payload |-> procs[p].payload,
                    fault |-> IF c.fault # 0 THEN c.fault
                              ELSE IF Undisturbed(p) THEN last.fault ELSE 0,
                    status |-> IF over THEN Answer(c.err) ELSE 0,
                    err |-> c.err, calls |-> c.calls,
                    before |-> IF Undisturbed(p) THEN last.before ELSE 0,
                    alone |-> Undisturbed(p),
                    again |-> Undisturbed(p) /\ last.again,
                    store0 |-> IF Undisturbed(p) THEN last.store0 ELSE <<>>,
                    tracker0 |-> IF Undisturbed(p) THEN last.tracker0 ELSE <<>>]
        /\ procs' = [procs EXCEPT ![p] =
                        IF over THEN Answered(p)
                        ELSE [r EXCEPT !.failed = @ \/ c.fault # 0]]
        /\ hist' = IF c.fault # 0
                   THEN [hist EXCEPT ![PKey(p)] =
                            [@ EXCEPT !.whole = FALSE, !.run = 0]]
                   ELSE hist

\* HandleEnvironments up to the call of ProcessDriftDetection: a report
\* that fails the validation is answered 400 at once; it makes no call, and
\* it is received between two requests
Receive(p, payload) ==
    /\ procs[p].pc = "idle"
    /\ \A q \in Procs : q < p => procs[q].pc # "idle"
    /\ IF ValidatePayload(payload) # ""
       THEN /\ Quiet
            /\ last' = [NoStep("report") EXCEPT
                           !.p = p, !.payload = payload, !.status = 400,
                           !.err = ValidatePayload(payload), !.alone = TRUE,
                           !.store0 = store, !.tracker0 = tracker]
            /\ UNCHANGED <<store, tracker, hist, procs>>
       ELSE /\ Received < MaxReports
            /\ IsEscalation(payload) =>
                   LET key == GenerateKey(payload.RepoName, payload.Environment)
                   IN  store[key].driftIncrement + Pending(key) < MaxDrift
            /\ ~Quiet =>
                   /\ Overlaps < MaxOverlaps
                   /\ Concurrent(payload)
                   /\ \A q \in Procs :
                          procs[q].pc # "idle" => Concurrent(procs[q].payload)
            /\ procs' = [procs EXCEPT ![p] =
                            [Idle EXCEPT !.pc = "Exists",
                                         !.payload = payload,
                                         !.overlaps = procs[p].overlaps
                                                      + IF Quiet THEN 0 ELSE 1]]
            /\ last' = [NoStep("receive") EXCEPT
                           !.p = p, !.payload = payload, !.alone = Quiet,
                           !.again = /\ last.act = "report"
                                     /\ last.status = 200
                                     /\ last.payload = payload
                                     /\ last.alone,
                           !.before = store[GenerateKey(payload.RepoName,
                                                payload.Environment)].driftIncrement,
                           !.store0 = IF Quiet THEN store ELSE <<>>,
                           !.tracker0 = IF Quiet THEN tracker ELSE <<>>]
            /\ hist' = [hist EXCEPT
                           ![GenerateKey(payload.RepoName, payload.Environment)] =
                               Recorded(@, payload)]
            /\ UNCHANGED <<store, tracker>>

\* InitializeEnvironment: EXISTS
StepExists(p, outcome) ==
    /\ procs[p].pc = "Exists"
    /\ Took(p, CheckExists(Ctx(p, outcome)),
            [procs[p] EXCEPT !.pc = IF Exists(store, PKey(p))
                                    THEN "HMSetLog" ELSE "HMSetInit"])

\* InitializeEnvironment: HMSET of the initial hash, with the report's
\* threshold or the configured one
StepInit(p, outcome) ==
    /\ procs[p].pc = "HMSetInit"
    /\ LET pl        == procs[p].payload
           threshold == IF pl.DriftThreshold = <<>>
                        THEN Itoa(ConfigDriftThreshold) ELSE pl.DriftThreshold
       IN  Took(p, InitializeEnvironment(Ctx(p, outcome), PKey(p),
                       pl.EnvironmentTier, pl.ProjectID, threshold),
                [procs[p] EXCEPT !.pc = "HMSetLog"])

\* UpdateOperationLog, then the choice of escalation, resolution or neither
StepLog(p, outcome) ==
    /\ procs[p].pc = "HMSetLog"
    /\ LET pl        == procs[p].payload
           timestamp == IF pl.Timestamp = "" THEN Now ELSE pl.Timestamp
       IN  Took(p, UpdateOperationLog(Ctx(p, outcome), PKey(p), timestamp, pl.Operation),
                [procs[p] EXCEPT !.pc = IF IsEscalation(pl) THEN "HIncrBy"
                                        ELSE IF IsResolution(pl) THEN "HSetDrift"
                                        ELSE "HGetAll"])

\* IncrementDrift: HINCRBY, whose answer is the new count
StepIncrementDrift(p, outcome) ==
    /\ procs[p].pc = "HIncrBy"
    /\ LET c == IncrementDrift(Ctx(p, outcome), PKey(p))
       IN  Took(p, c,
                [procs[p] EXCEPT
                    !.incrementVal = c.store[PKey(p)].driftIncrement,
                    !.pc = IF procs[p].payload.PlanOutput # ""
                           THEN "HSetPlanOutput" ELSE "CheckThreshold"])

\* StorePlanOutput
StepStorePlanOutput(p, outcome) ==
    /\ procs[p].pc = "HSetPlanOutput"
    /\ Took(p, StorePlanOutput(Ctx(p, outcome), PKey(p), procs[p].payload.PlanOutput),
            [procs[p] EXCEPT !.pc = "CheckThreshold"])

\* HandleThresholdBreach: CheckThreshold, then the parsing of the report's
\* project id
StepCheckThreshold(p, outcome) ==
    /\ procs[p].pc = "CheckThreshold"
    /\ LET c == CheckThreshold(Ctx(p, outcome), PKey(p), procs[p].incrementVal)
       IN  IF c.err # "" THEN Took(p, c, procs[p])
           ELSE IF ~Exceeded(store, PKey(p), procs[p].incrementVal)
           THEN Took(p, c, [procs[p] EXCEPT !.pc = "HGetAll"])
           ELSE IF ~Atoi(PEnv(p).ProjectID).ok
           THEN Took(p, Error(c, "invalid project ID"), procs[p])
           ELSE Took(p, c, [procs[p] EXCEPT !.pc = "HGet:issueID"])

\* HandleThresholdBreach: the read of the stored issue id
StepGetIssueID(p, outcome) ==
    /\ procs[p].pc = "HGet:issueID"
    /\ Took(p, GetField(Ctx(p, outcome), "issueID"),
            [procs[p] EXCEPT !.issueID = store[PKey(p)].issueID,
                             !.pc = "HGet:planOutput"])

\* HandleThresholdBreach: the read of the stored plan output, which is
\* empty when the read fails
StepGetPlanOutput(p, outcome) ==
    /\ procs[p].pc = "HGet:planOutput"
    /\ LET c == GetField(Ctx(p, outcome), "planOutput")
       IN  Took(p, [c EXCEPT !.err = ""],
                [procs[p] EXCEPT
                    !.planOutput = IF c.err # "" THEN ""
                                   ELSE store[PKey(p)].planOutput,
                    !.pc = "GetThreshold"])

\* the issue id HandleThresholdBreach parsed from what it read
ExistingIssueID(issueIDStr) ==
    IF issueIDStr # <<>> /\ Atoi(issueIDStr).ok THEN Atoi(issueIDStr).val ELSE 0

\* HandleThresholdBreach: GetThreshold for the description, then the
\* choice between the status check and the creation
StepGetThreshold(p, outcome) ==
    /\ procs[p].pc = "GetThreshold"
    /\ Took(p, GetThreshold(Ctx(p, outcome), PKey(p)),
            [procs[p] EXCEPT
                !.thresholdValue = ThresholdValue(store, PKey(p)).val,
                !.pc = IF ExistingIssueID(procs[p].issueID) > 0
                       THEN "GetIssue" ELSE "PostIssue"])

PProject(p) == Atoi(PEnv(p).ProjectID).val

\* HandleThresholdBreach: GetIssueStatus of the issue whose id it read
StepGetIssueStatus(p, outcome) ==
    /\ procs[p].pc = "GetIssue"
    /\ LET iid == ExistingIssueID(procs[p].issueID)
       IN  Took(p, GetIssueStatus(Ctx(p, outcome), PProject(p), iid),
                [procs[p] EXCEPT !.pc = IF IssueIsOpen(tracker, PProject(p), iid)
                                        THEN "PutDescription" ELSE "PostIssue"])

\* HandleThresholdBreach: UpdateIssueDescription of the open issue
StepUpdateIssueDescription(p, outcome) ==
    /\ procs[p].pc = "PutDescription"
    /\ Took(p, UpdateIssueDescription(Ctx(p, outcome), PProject(p),
                   ExistingIssueID(procs[p].issueID), PEnv(p).Environment,
                   procs[p].incrementVal, procs[p].thresholdValue,
                   procs[p].planOutput),
            [procs[p] EXCEPT !.pc = "HGetAll"])

\* HandleThresholdBreach: CreateDriftIssue, whose answer is the new issue
StepCreateDriftIssue(p, outcome) ==
    /\ procs[p].pc = "PostIssue"
    /\ LET c == CreateDriftIssue(Ctx(p, outcome), PProject(p),
                    PEnv(p).Environment, procs[p].incrementVal,
                    procs[p].thresholdValue, procs[p].planOutput, PKey(p))
       IN  Took(p, c, [procs[p] EXCEPT !.iid = c.calls[Len(c.calls)].iid,
                                       !.pc = "HSet:issueID"])

\* HandleThresholdBreach: SetField issueID
StepStoreIssueID(p, outcome) ==
    /\ procs[p].pc = "HSet:issueID"
    /\ Took(p, SetIssueID(Ctx(p, outcome), PKey(p), Itoa(procs[p].iid)),
            [procs[p] EXCEPT !.pc = "HSet:issueURL"])

\* HandleThresholdBreach: SetField issueURL
StepStoreIssueURL(p, outcome) ==
    /\ procs[p].pc = "HSet:issueURL"
    /\ Took(p, SetIssueURL(Ctx(p, outcome), PKey(p),
                           WebURL(PProject(p), procs[p].iid)),
            [procs[p] EXCEPT !.pc = "HGetAll"])

\* ResetDriftIncrement: ResetDrift
StepResetDrift(p, outcome) ==
    /\ procs[p].pc = "HSetDrift"
    /\ Took(p, ResetDrift(Ctx(p, outcome), PKey(p)),
            [procs[p] EXCEPT !.pc = "Reset:HGet:issueID"])

\* ResetDriftIncrement: the read of the stored issue id, then its parsing
\* and that of the report's project id; a failed read and an empty id both
\* end the reset without error
StepResetGetIssueID(p, outcome) ==
    /\ procs[p].pc = "Reset:HGet:issueID"
    /\ LET c          == GetField(Ctx(p, outcome), "issueID")
           issueIDStr == store[PKey(p)].issueID
       IN  IF c.err # "" \/ issueIDStr = <<>>
           THEN Took(p, [c EXCEPT !.err = ""], [procs[p] EXCEPT !.pc = "HGetAll"])
           ELSE IF ~Atoi(issueIDStr).ok \/ Atoi(issueIDStr).val <= 0
           THEN Took(p, c, [procs[p] EXCEPT !.pc = "HGetAll"])
           ELSE IF ~Atoi(PEnv(p).ProjectID).ok
           THEN Took(p, Error(c, "invalid project ID"), procs[p])
           ELSE Took(p, c, [procs[p] EXCEPT !.issueID = issueIDStr,
                                            !.pc = "Reset:GetIssue"])

\* ResetDriftIncrement: GetIssueStatus
StepResetGetIssueStatus(p, outcome) ==
    /\ procs[p].pc = "Reset:GetIssue"
    /\ LET iid == Atoi(procs[p].issueID).val
       IN  Took(p, GetIssueStatus(Ctx(p, outcome), PProject(p), iid),
                [procs[p] EXCEPT !.pc = IF IssueIsOpen(tracker, PProject(p), iid)
                                        THEN "PostNote" ELSE "HGetAll"])

\* CloseIssue: the comment
StepCloseComment(p, outcome) ==
    /\ procs[p].pc = "PostNote"
    /\ Took(p, AddComment(Ctx(p, outcome), PProject(p), Atoi(procs[p].issueID).val),
            [procs[p] EXCEPT !.pc = "PutClose"])

\* CloseIssue: the close
StepCloseIssue(p, outcome) ==
    /\ procs[p].pc = "PutClose"
    /\ Took(p, CloseIssue(Ctx(p, outcome), PProject(p), Atoi(procs[p].issueID).val),
            [procs[p] EXCEPT !.pc = "Clear:issueID"])

\* ResetDriftIncrement: SetField issueID ""
StepClearIssueID(p, outcome) ==
    /\ procs[p].pc = "Clear:issueID"
    /\ Took(p, SetIssueID(Ctx(p, outcome), PKey(p), <<>>),
            [procs[p] EXCEPT !.pc = "Clear:issueURL"])

\* ResetDriftIncrement: SetField issueURL ""
StepClearIssueURL(p, outcome) ==
    /\ procs[p].pc = "Clear:issueURL"
    /\ Took(p, SetIssueURL(Ctx(p, outcome), PKey(p), NoUrl),
            [procs[p] EXCEPT !.pc = "HGetAll"])

\* GetEnvironmentData, and the answer of HandleEnvironments
StepGetEnvironmentData(p, outcome) ==
    /\ procs[p].pc = "HGetAll"
    /\ Took(p, GetEnvironmentData(Ctx(p, outcome), PKey(p)),
            [procs[p] EXCEPT !.pc = "idle"])

\* the next call of request p, with the given outcome
Step(p, outcome) ==
    /\ outcome # 0 => ~procs[p].failed
    /\ outcome < 0 => procs[p].pc = "PostIssue"
    /\ \/ StepExists(p, outcome)
       \/ StepInit(p, outcome)
       \/ StepLog(p, outcome)
       \/ StepIncrementDrift(p, outcome)
       \/ StepStorePlanOutput(p, outcome)
       \/ StepCheckThreshold(p, outcome)
       \/ StepGetIssueID(p, outcome)
       \/ StepGetPlanOutput(p, outcome)
       \/ StepGetThreshold(p, outcome)
       \/ StepGetIssueStatus(p, outcome)
       \/ StepUpdateIssueDescription(p, outcome)
       \/ StepCreateDriftIssue(p, outcome)
       \/ StepStoreIssueID(p, outcome)
       \/ StepStoreIssueURL(p, outcome)
       \/ StepResetDrift(p, outcome)
       \/ StepResetGetIssueID(p, outcome)
       \/ StepResetGetIssueStatus(p, outcome)
       \/ StepCloseComment(p, outcome)
       \/ StepCloseIssue(p, outcome)
       \/ StepClearIssueID(p, outcome)
       \/ StepClearIssueURL(p, outcome)
       \/ StepGetEnvironmentData(p, outcome)

\* a call that succeeds
Proceed == \E p \in Procs : Step(p, 0)

\* somebody closes an issue in the tracker, between two reports
ExternalClose(project, iid) ==
    /\ Quiet
    /\ IssueIsOpen(tracker, project, iid)
    /\ tracker' = PutClose(tracker, project, iid)
    /\ last' = NoStep("close")
    /\ UNCHANGED <<store, hist, procs>>

Close == \E p \in TrackerProjects : \E i \in 1..MaxIssues : ExternalClose(p, i)

\* ------------------------------------------------------------------------
\* Reports of every kind
\* ------------------------------------------------------------------------

Report == \E p \in Procs : \E payload \in Payloads : Receive(p, payload)

Next == Report \/ Proceed \/ Close

Spec == Init /\ [][Next]_vars

\* ------------------------------------------------------------------------
\* Reports during which a call to the store or to the tracker fails
\* ------------------------------------------------------------------------

\* a drift plan, an apply, a plan that failed, a drift plan whose project
\* id is no number, and an apply without timestamp
FaultReports ==
    Reports({"main"}, {"plan"}, {1, 2}, {TRUE},
            {"prod"}, {<<>>}, {<<"1">>}, {"t1"}, {""})
    \cup Reports({"main"}, {"apply"}, {0}, {FALSE},
                 {"prod"}, {<<>>}, {<<"1">>}, {""}, {""})
    \cup Reports({"main"}, {"plan"}, {2}, {TRUE},
                 {"prod"}, {<<>>}, {<<"p">>}, {"t1"}, {""})
    \cup Reports({"main"}, {"apply"}, {0}, {FALSE},
                 {"prod"}, {<<>>}, {<<"1">>}, {"t1"}, {""})

ReportOk ==
    \E p \in Procs : \E payload \in FaultReports : Receive(p, payload)

\* a call that fails, or a POST of a new issue whose answer cannot be read
Fail == \E p \in Procs : \E outcome \in CallOutcomes \ {0} : Step(p, outcome)

NextFail == ReportOk \/ Proceed \/ Fail \/ Close

SpecFail == Init /\ [][NextFail]_vars

\* ------------------------------------------------------------------------
\* Drift plans and applies without failures
\* ------------------------------------------------------------------------

\* a drift plan with and without plan output, and an apply
ConcReports ==
    Reports({"main"}, {"plan"}, {2}, {TRUE},
            {"prod"}, {<<>>}, {<<"1">>}, {"t1"}, {"", "o1"})
    \cup Reports({"main"}, {"apply"}, {0}, {FALSE},
                 {"prod"}, {<<>>}, {<<"1">>}, {"t1"}, {""})

ConcReport ==
    \E p \in Procs : \E payload \in ConcReports : Receive(p, payload)

NextConc == ConcReport \/ Proceed

SpecConc == Init /\ [][NextConc]_vars

\* ------------------------------------------------------------------------
\* CheckThreshold on its own: a record with some stored threshold, or no
\* record, and a call with some count
\* ------------------------------------------------------------------------

\* the counts CheckThreshold is called with
MaxCount == 12

\* thresholds a first report can have stored: numbers, with a sign, of two
\* digits, and text that is no number
\* numerals that do not fit an int: 2^63 and twenty nines
OutOfRange ==
    {MinIntDigits, [i \in 1..20 |-> "9"]}

StoredThresholds ==
    {<<"0">>, <<"1">>, <<"2">>, <<"3">>, <<"1", "0">>, <<"-", "1">>,
     <<"x">>, <<"1", "x">>, <<"0", "0", "2">>} \cup OutOfRange

\* what CheckThreshold returns: the boolean, false with an error
CheckThresholdResult(c, key, currentDrift) ==
    LET c1 == CheckThreshold(c, key, currentDrift)
    IN  [exceeded |-> c1.err = "" /\ Exceeded(c.store, key, currentDrift),
         err |-> c1.err, after |-> c1]

InitThreshold ==
    /\ \E key \in Keys :
          \/ store = [k \in Keys |-> EmptyHash]
          \/ \E t \in StoredThresholds :
                store = HMSetInit([k \in Keys |-> EmptyHash], key, "prod", <<"1">>, t)
    /\ tracker = [p \in TrackerProjects |-> <<>>]
    /\ last = NoStep("init")
    /\ hist = [k \in Keys |-> NoHistory]
    /\ procs = [p \in Procs |-> Idle]

\* one call of CheckThreshold; status holds the boolean it returned, as 1
\* or 0, and before the count it was called with
CheckThresholdCall(key, currentDrift) ==
    LET r == CheckThresholdResult(Begin(store, tracker, 0), key, currentDrift)
    IN  /\ store' = r.after.store
        /\ tracker' = r.after.tracker
        /\ last' = [NoStep("check") EXCEPT !.status = IF r.exceeded THEN 1 ELSE 0,
                                           !.err = r.err,
                                           !.calls = r.after.calls,
                                           !.before = currentDrift]
        /\ UNCHANGED <<hist, procs>>

\* what GetThreshold returns: the integer, 0 with an error
GetThresholdResult(c, key) ==
    LET c1 == GetThreshold(c, key)
    IN  [val |-> IF c1.err = "" THEN ThresholdValue(c.store, key).val ELSE 0,
         err |-> c1.err, after |-> c1]

\* one call of GetThreshold, whose read fails when fault is 1; status holds
\* the integer it returned
GetThresholdCall(key, fault) ==
    LET r == GetThresholdResult(Begin(store, tracker, fault), key)
    IN  /\ store' = r.after.store
        /\ tracker' = r.after.tracker
        /\ last' = [NoStep("threshold") EXCEPT !.fault = fault,
                                               !.status = r.val,
                                               !.err = r.err,
                                               !.calls = r.after.calls]
        /\ UNCHANGED <<hist, procs>>

\* one call of CheckThreshold whose read fails
CheckThresholdReadFails(key, currentDrift) ==
    LET r == CheckThresholdResult(Begin(store, tracker, 1), key, currentDrift)
    IN  /\ store' = r.after.store
        /\ tracker' = r.after.tracker
        /\ last' = [NoStep("checkfault") EXCEPT !.fault = 1,
                                                !.status = IF r.exceeded THEN 1 ELSE 0,
                                                !.err = r.err,
                                                !.calls = r.after.calls,
                                                !.before = currentDrift]
        /\ UNCHANGED <<hist, procs>>

NextThreshold ==
    \/ \E key \in Keys : \E currentDrift \in 0..MaxCount :
           CheckThresholdCall(key, currentDrift)
    \/ \E key \in Keys : \E fault \in {0, 1} : GetThresholdCall(key, fault)
    \/ \E key \in Keys : \E currentDrift \in 0..MaxCount :
           CheckThresholdReadFails(key, currentDrift)

SpecThreshold == InitThreshold /\ [][NextThreshold]_vars

\* ------------------------------------------------------------------------
\* The validation gate: reports with any of the required fields empty, and
\* complete reports whose other fields vary
\* ------------------------------------------------------------------------

\* each of the six required fields empty or not
IncompleteReports ==
    [RepoName : {"", "svc"}, Branch : {"", "main"}, Environment : {"", "prod"},
     EnvironmentTier : {"", "prod"}, DriftThreshold : {<<>>},
     ProjectID : {<<>>, <<"1">>}, Operation : {"", "plan"}, ExitCode : {2},
     Scheduled : {TRUE}, Timestamp : {"t1"}, PlanOutput : {"o1"}]

\* the six required fields set: a drift plan and an apply, then one other
\* field at a time: the threshold, the timestamp, the plan output, the
\* scheduled flag, the exit code, an operation the engine does not know
CompleteReports ==
    Reports({"main"}, {"plan"}, {2}, {TRUE},
            {"prod"}, {<<>>, <<"2">>}, {<<"1">>}, {"t1"}, {""})
    \cup Reports({"main"}, {"apply"}, {0}, {FALSE},
                 {"prod"}, {<<>>}, {<<"1">>}, {"", "t1"}, {""})
    \cup Reports({"main"}, {"plan"}, {2}, {TRUE, FALSE},
                 {"prod"}, {<<>>}, {<<"1">>}, {"t1"}, {"o1", "o2"})
    \cup Reports({"dev"}, {"destroy"}, {1}, {FALSE},
                 {"prod"}, {<<>>}, {<<"1">>}, {"t1"}, {""})

GateReports == IncompleteReports \cup CompleteReports

GateReport ==
    \E p \in Procs : \E payload \in GateReports : Receive(p, payload)

NextGate == GateReport \/ Proceed

SpecGate == Init /\ [][NextGate]_vars

\* ------------------------------------------------------------------------
\* Two keys: the reports of two repositories, among them a first report
\* that stores a threshold and a project id that are no numbers
\* ------------------------------------------------------------------------

TwoRepos == {"svc", "web"}

TwoKeys == {GenerateKey(r, e) : r \in TwoRepos, e \in Environments}

\* for svc: a drift plan, and a drift plan whose threshold and project id
\* are no numbers
OneKeyReports ==
    Reports({"main"}, {"plan"}, {2}, {TRUE},
            {"prod"}, {<<>>}, {<<"1">>}, {"t1"}, {""})
    \cup Reports({"main"}, {"plan"}, {2}, {TRUE},
                 {"prod"}, {<<"x">>}, {<<"p">>}, {"t1"}, {""})

\* the two reports for svc, and the drift plan for web
TwoKeyReports ==
    OneKeyReports
    \cup {[pl EXCEPT !.RepoName = "web"] :
             pl \in {q \in OneKeyReports : q.ProjectID = <<"1">>}}

InitTwoKeys ==
    /\ store = [k \in TwoKeys |-> EmptyHash]
    /\ tracker = [p \in TrackerProjects |-> <<>>]
    /\ last = NoStep("init")
    /\ hist = [k \in TwoKeys |-> NoHistory]
    /\ procs = [p \in Procs |-> Idle]

TwoKeysOk ==
    \E p \in Procs : \E payload \in TwoKeyReports : Receive(p, payload)

\* a call of a report for either key fails
TwoKeysFault == \E p \in Procs : Step(p, 1)

NextTwoKeys == TwoKeysOk \/ Proceed \/ TwoKeysFault

SpecTwoKeys == InitTwoKeys /\ [][NextTwoKeys]_vars

\* ------------------------------------------------------------------------
\* Two keys and two projects: a repository whose reports change their
\* project id, next to a repository of the other project
\* ------------------------------------------------------------------------

\* for svc: the drift plan and the apply, each for project 1 and for
\* project 2; for web: the drift plan for project 2
TwoProjectReports ==
    Reports({"main"}, {"plan"}, {2}, {TRUE},
            {"prod"}, {<<>>}, {<<"1">>, <<"2">>}, {"t1"}, {""})
    \cup Reports({"main"}, {"apply"}, {0}, {FALSE},
                 {"prod"}, {<<>>}, {<<"1">>, <<"2">>}, {"t1"}, {""})
    \cup {[pl EXCEPT !.RepoName = "web"] :
             pl \in Reports({"main"}, {"plan"}, {2}, {TRUE},
                            {"prod"}, {<<>>}, {<<"2">>}, {"t1"}, {""})}

TwoProjectsReport ==
    \E p \in Procs : \E payload \in TwoProjectReports : Receive(p, payload)

NextTwoProjects == TwoProjectsReport \/ Proceed

SpecTwoProjects == InitTwoKeys /\ [][NextTwoProjects]_vars

\* ------------------------------------------------------------------------
\* GenerateKey on its own: names that are empty, that contain the
\* delimiter, that are the delimiter, and plain ones
\* ------------------------------------------------------------------------

KeyRepoNames ==
    {"", ":", "a", "a:b", "x:", ":x", "app", "svc", "my-repo",
     "my-terraform-repo", "repo:with:colons"}

KeyEnvironments ==
    {"", ":", "b", "b:c", "y:", ":y", "c", "prod", "production",
     "staging-us-east-1", "env:with:colons"}

\* one call of GenerateKey: payload holds the two names it was called with,
\* and the string it returned is kept where a step keeps its text result
GenerateKeyCall(repoName, environment) ==
    /\ Received = 0
    /\ last' = [NoStep("key") EXCEPT
                   !.payload = [NoPayload EXCEPT !.RepoName = repoName,
                                                 !.Environment = environment],
                   !.err = GenerateKey(repoName, environment)]
    /\ UNCHANGED <<store, tracker, hist, procs>>

NextKey ==
    \E repoName \in KeyRepoNames : \E environment \in KeyEnvironments :
        GenerateKeyCall(repoName, environment)

SpecKey == Init /\ [][NextKey]_vars

\* ------------------------------------------------------------------------
\* Keys of names with and without the delimiter: calls of GenerateKey, and
\* drift plans of repositories and environments whose keys can coincide
\* ------------------------------------------------------------------------

\* two pairs of plain names, and two pairs that share the key "a:b:c"
SharedNames == {<<"a", "c">>, <<"b", "c">>, <<"a:b", "c">>, <<"a", "b:c">>}

SharedKeys == {GenerateKey(n[1], n[2]) : n \in SharedNames}

\* the drift plan of each repository and environment, for either tier
SharedKeyReports ==
    {[pl EXCEPT !.RepoName = n[1], !.Environment = n[2]] :
        pl \in Reports({"main"}, {"plan"}, {2}, {TRUE},
                       {"prod", "nonprod"}, {<<>>}, {<<"1">>}, {"t1"}, {""}),
        n \in SharedNames}

InitSharedKey ==
    /\ store = [k \in SharedKeys |-> EmptyHash]
    /\ tracker = [p \in TrackerProjects |-> <<>>]
    /\ last = NoStep("init")
    /\ hist = [k \in SharedKeys |-> NoHistory]
    /\ procs = [p \in Procs |-> Idle]

SharedKeyReport ==
    \E p \in Procs : \E payload \in SharedKeyReports : Receive(p, payload)

NextSharedKey == SharedKeyReport \/ Proceed \/ NextKey

SpecSharedKey == InitSharedKey /\ [][NextSharedKey]_vars

\* ------------------------------------------------------------------------
\* The status check: reports for two projects, so that a stored issue id
\* can name an issue the addressed project does not have; reports whose
\* status check fails; and the replies the tracker can give to the check
\* ------------------------------------------------------------------------

StatusReports ==
    Reports({"main"}, {"plan"}, {2}, {TRUE},
            {"prod"}, {<<>>}, {<<"1">>, <<"2">>}, {"t1"}, {""})
    \cup Reports({"main"}, {"apply"}, {0}, {FALSE},
                 {"prod"}, {<<>>}, {<<"1">>, <<"2">>}, {"t1"}, {""})

\* the status codes of a reply
StatusCodes == {199, 200, 201, 299, 300, 301, 400, 401, 403, 404, 500, 503}

StatusReport ==
    \E p \in Procs : \E payload \in StatusReports : Receive(p, payload)

\* the status check of a drift plan or of a resolving report fails
StatusReportFault ==
    \E p \in Procs :
        /\ procs[p].pc \in {"GetIssue", "Reset:GetIssue"}
        /\ Step(p, 1)

\* GetIssueStatus on a reply with the given status code; a reply in
\* 200..299 is about an issue the tracker has and carries its state.
\* status holds the code, before the boolean returned, as 1 or 0
StatusReply(project, iid, statusCode) ==
    /\ Quiet
    /\ (statusCode >= 200 /\ statusCode < 300) => IssueExists(tracker, project, iid)
    /\ LET state == IF IssueExists(tracker, project, iid)
                    THEN tracker[project][iid].state ELSE ""
           r     == IssueStatusOfReply(statusCode, state)
       IN  last' = [NoStep("status") EXCEPT
                       !.status = statusCode,
                       !.err = r.err,
                       !.calls = <<TrackerCall("GetIssue", project, iid)>>,
                       !.before = IF r.open THEN 1 ELSE 0]
    /\ UNCHANGED <<store, tracker, hist, procs>>

Reply ==
    \E project \in TrackerProjects : \E iid \in 1..MaxIssues :
        \E statusCode \in StatusCodes : StatusReply(project, iid, statusCode)

NextStatus == StatusReport \/ Proceed \/ StatusReportFault \/ Reply \/ Close

SpecStatus == Init /\ [][NextStatus]_vars

\* ------------------------------------------------------------------------
\* The request: its method and its body, before the report is validated
\* ------------------------------------------------------------------------

Methods == {"POST", "GET"}

\* a body that cannot be read, a body that is no JSON document of the
\* payload's shape, and a body that parses to a payload
BodyKinds == {"unreadable", "unparsable", "json"}

\* a drift plan, an apply, and reports with a required field missing
RequestReports ==
    Reports({"main"}, {"plan"}, {2}, {TRUE},
            {"prod"}, {<<>>}, {<<"1">>}, {"t1"}, {""})
    \cup Reports({"main"}, {"apply"}, {0}, {FALSE},
                 {"prod"}, {<<>>}, {<<"1">>}, {"t1"}, {""})
    \cup Reports({"main"}, {"", "plan"}, {2}, {TRUE},
                 {"", "prod"}, {<<>>}, {<<>>, <<"1">>}, {"t1"}, {""})

\* HandleEnvironments up to the parsing of the body: a request that is no
\* POST is answered 405, a body that cannot be read or parsed 400, and
\* neither becomes a report
RefuseRequest(method, body) ==
    /\ Quiet
    /\ method # "POST" \/ body # "json"
    /\ last' = [act |-> IF method # "POST" THEN "method" ELSE "body",
                payload |-> NoPayload, fault |-> 0,
                status |-> IF method # "POST" THEN 405 ELSE 400,
                err |-> IF method # "POST" THEN "Method not allowed"
                        ELSE IF body = "unreadable"
                             THEN "Error reading request body"
                             ELSE "Error parsing JSON payload",
                p |-> 0, calls |-> <<>>, before |-> 0, alone |-> FALSE,
                again |-> FALSE, store0 |-> <<>>, tracker0 |-> <<>>]
    /\ UNCHANGED <<store, tracker, hist, procs>>

RequestRefused ==
    \E method \in Methods : \E body \in BodyKinds : RefuseRequest(method, body)

\* a POST request whose body parses to a report
RequestOk ==
    \E p \in Procs : \E payload \in RequestReports : Receive(p, payload)

\* a call of a report fails
RequestFault == \E p \in Procs : Step(p, 1)

NextRequest == RequestRefused \/ RequestOk \/ Proceed \/ RequestFault \/ Close

SpecRequest == Init /\ [][NextRequest]_vars

\* ------------------------------------------------------------------------
\* One project: reports that all carry the same project id, while nobody
\* else touches the tracker
\* ------------------------------------------------------------------------

\* every combination of the decision fields, the drift plan with a
\* threshold of its own, the drift plan with a plan output, and a plan that
\* was not scheduled, with a plan output and a tier and threshold of its
\* own, without timestamp
OneProjectReports ==
    PlainReports
    \cup Reports({"main"}, {"plan"}, {2}, {TRUE},
                 {"prod"}, {<<"2">>}, {<<"1">>}, {"t1"}, {""})
    \cup Reports({"main"}, {"plan"}, {2}, {TRUE},
                 {"prod"}, {<<>>}, {<<"1">>}, {"t1"}, {"o2"})
    \cup Reports({"main"}, {"plan"}, {2}, {FALSE},
                 {"nonprod"}, {<<"2">>}, {<<"1">>}, {""}, {"o1"})

OneProjectReport ==
    \E p \in Procs : \E payload \in OneProjectReports : Receive(p, payload)

NextOneProject == OneProjectReport \/ Proceed

SpecOneProject == Init /\ [][NextOneProject]_vars

\* ------------------------------------------------------------------------
\* The CLI wrapper (package main of ci): it runs terraform, sends the
\* report to the server with sendWebhook, and exits.  The wrapper is the
\* one process "cli"; its record holds the values of main and sendWebhook.
\* ------------------------------------------------------------------------

\* the first argument passed on to terraform
CliOperations == {"plan", "apply", "destroy", "init"}

\* the drift endpoint: not configured, or configured
CliEndpoints == {"", "http://guardian"}

\* cmd.Run returned nil, or an *exec.ExitError with terraform's exit code,
\* or another error (terraform could not be started)
TerraformOutcomes ==
    [kind : {"nil"}, code : {0}]
    \cup [kind : {"ExitError"}, code : {1, 2, 3}]
    \cup [kind : {"error"}, code : {0}]

\* what client.Do returns: a transport error, or a response with a status
WebhookReplies ==
    [failed : {TRUE}, status : {0}]
    \cup [failed : {FALSE}, status : {199, 200, 201, 204, 299, 300, 404, 500}]

CliStart ==
    [pc |-> "Run", operation |-> "", endpoint |-> "", kind |-> "",
     terraform |-> 0, exitCode |-> 0, planOutput |-> FALSE,
     i |-> 0, attempts |-> 0, waited |-> <<>>, delivered |-> FALSE,
     exit |-> 0]

InitCli ==
    /\ store = [k \in Keys |-> EmptyHash]
    /\ tracker = [p \in TrackerProjects |-> <<>>]
    /\ last = NoStep("init")
    /\ hist = [k \in Keys |-> NoHistory]
    /\ procs = [p \in {"cli"} |-> CliStart]

\* the exit code main derives from the error of cmd.Run
ExitCodeOf(outcome) ==
    IF outcome.kind = "nil" THEN 0
    ELSE IF outcome.kind = "ExitError" THEN outcome.code
    ELSE 1

\* main up to the call of sendWebhook: terraform runs and ends with
\* outcome; the payload carries the exit code, and the plan output when a
\* plan ended with exit code 2; the webhook is sent when an endpoint is
\* configured and the operation is plan, apply or destroy
RunTerraform(operation, endpoint, outcome) ==
    /\ procs["cli"].pc = "Run"
    /\ procs' = [procs EXCEPT !["cli"] =
                    [@ EXCEPT !.pc = IF /\ endpoint # ""
                                        /\ operation \in {"plan", "apply", "destroy"}
                                     THEN "NewRequest" ELSE "Exit",
                              !.operation = operation,
                              !.endpoint = endpoint,
                              !.kind = outcome.kind,
                              !.terraform = outcome.code,
                              !.exitCode = ExitCodeOf(outcome),
                              !.planOutput = /\ endpoint # ""
                                             /\ operation = "plan"
                                             /\ ExitCodeOf(outcome) = 2]]
    /\ last' = [NoStep("run") EXCEPT !.status = ExitCodeOf(outcome)]
    /\ UNCHANGED <<store, tracker, hist>>

\* sendWebhook up to the loop: json.Marshal and http.NewRequest; when one
\* of them fails, sendWebhook returns
NewRequest(ok) ==
    /\ procs["cli"].pc = "NewRequest"
    /\ procs' = [procs EXCEPT !["cli"].pc = IF ok THEN "Do" ELSE "Exit"]
    /\ last' = [NoStep("request") EXCEPT !.status = IF ok THEN 0 ELSE 1]
    /\ UNCHANGED <<store, tracker, hist>>

\* a loop that goes round once more
RetryOnceMore(i) == i < 3

\* the loop goes round again after a failed attempt
Retry(i) == i < 2

\* 1<<uint(i)
Backoff(i) == 2 ^ i

\* one round of the loop of sendWebhook: client.Do, then the wait and the
\* next round, or the return
Do(reply) ==
    /\ procs["cli"].pc = "Do"
    /\ LET c     == procs["cli"]
           wrong == reply.failed \/ reply.status < 200 \/ reply.status >= 300
       IN  procs' = [procs EXCEPT !["cli"] =
               IF wrong /\ Retry(c.i)
               THEN [c EXCEPT !.attempts = c.attempts + 1,
                              !.waited = Append(c.waited, Backoff(c.i)),
                              !.i = c.i + 1]
               ELSE [c EXCEPT !.attempts = c.attempts + 1,
                              !.delivered = ~wrong,
                              !.pc = "Exit"]]
    /\ last' = [NoStep("attempt") EXCEPT
                   !.status = reply.status,
                   !.err = IF reply.failed THEN "Error sending webhook" ELSE ""]
    /\ UNCHANGED <<store, tracker, hist>>

\* the end of main: os.Exit(0) after an *exec.ExitError, os.Exit(1) after
\* another error, and the return from main, which is exit code 0
Exit ==
    /\ procs["cli"].pc = "Exit"
    /\ LET c == procs["cli"]
       IN  procs' = [procs EXCEPT !["cli"] =
                        [c EXCEPT !.pc = "exited",
                                  !.exit = IF c.kind = "nil" THEN 0
                                           ELSE IF c.kind = "ExitError" THEN 0
                                           ELSE 1]]
    /\ last' = NoStep("exit")
    /\ UNCHANGED <<store, tracker, hist>>

Run ==
    \E operation \in CliOperations : \E endpoint \in CliEndpoints :
        \E outcome \in TerraformOutcomes :
            RunTerraform(operation, endpoint, outcome)

SendWebhook ==
    \/ \E ok \in BOOLEAN : NewRequest(ok)
    \/ \E reply \in WebhookReplies : Do(reply)

NextCli == Run \/ SendWebhook \/ Exit

\* the wrapper is one process that keeps running until it exits, and
\* client.Do returns within the client's timeout
SpecCli == InitCli /\ [][NextCli]_vars /\ WF_vars(NextCli)

\* ------------------------------------------------------------------------
\* The authentication in front of the report endpoint: the middleware
\* reads the Authorization header of a request and hands the request on
\* to HandleEnvironments, within the same call, or answers 401.  The
\* server's record holds the configuration main has loaded.
\*
\* A header and a token are sequences of characters: a character is a
\* one-character string, or the name of its code point where a TLA+ string
\* cannot hold it ("U+00A0").
\* ------------------------------------------------------------------------

Chars(s) == [i \in 1..Len(s) |-> SubSeq(s, i, i)]

HasPrefix(s, prefix) ==
    Len(s) >= Len(prefix) /\ SubSeq(s, 1, Len(prefix)) = prefix

\* unicode.IsSpace: \t \n \v \f \r, the blank, NEL, NBSP, and the code
\* points of category Z
WhiteSpace ==
    {"\t", "\n", "U+000B", "\f", "\r", " ", "U+0085", "U+00A0", "U+1680",
     "U+2000", "U+2001", "U+2002", "U+2003", "U+2004", "U+2005", "U+2006",
     "U+2007", "U+2008", "U+2009", "U+200A", "U+2028", "U+2029", "U+202F",
     "U+205F", "U+3000"}

IsSpace(ch) == ch \in WhiteSpace

RECURSIVE TrimLeft(_)
TrimLeft(s) ==
    IF Len(s) > 0 /\ IsSpace(s[1])
    THEN TrimLeft(SubSeq(s, 2, Len(s))) ELSE s

RECURSIVE TrimRight(_)
TrimRight(s) ==
    IF Len(s) > 0 /\ IsSpace(s[Len(s)])
    THEN TrimRight(SubSeq(s, 1, Len(s) - 1)) ELSE s

\* strings.TrimSpace
TrimSpace(s) == TrimRight(TrimLeft(s))

bearerPrefix == Chars("Bearer ")

extractBearerToken(authHeader) ==
    IF authHeader = <<>> THEN <<>>
    ELSE IF ~HasPrefix(authHeader, bearerPrefix) THEN <<>>
    ELSE TrimSpace(SubSeq(authHeader, Len(bearerPrefix) + 1, Len(authHeader)))

\* a validation that takes a token that begins with the expected one
validateTokenPrefix(token, expectedToken) ==
    IF expectedToken = <<>> THEN FALSE ELSE HasPrefix(token, expectedToken)

validateToken(token, expectedToken) ==
    IF expectedToken = <<>> THEN FALSE ELSE token = expectedToken

\* the values of BEARER_TOKEN
BearerTokens == {<<>>, Chars("secret")}

\* the Authorization headers of the requests: none, the token alone, other
\* schemes, no token, other tokens, and the token with white space around
\* and inside
AuthHeaders ==
    {Chars(h) : h \in
        {"", "secret", "Basic secret", "bearer secret", "Bearer", "Bearer ",
         "Bearer   ", "Bearer other", "Bearer secre", "Bearer secrets",
         "Bearer secret", "Bearer  secret", "Bearer secret ",
         "Bearer \tsecret", "Bearer\tsecret", "Bearer sec ret",
         "Bearer secret\n", "Bearer \nsecret", "Bearer \n",
         "Bearer \r\nsecret\r\n", "Bearer secret\f"}}
    \cup {Chars("Bearer secret") \o <<"U+00A0">>,
          Chars("Bearer ") \o <<"U+000B">> \o Chars("secret") \o <<"U+0085">>,
          Chars("Bearer ") \o <<"U+2003">>,
          Chars("Bearer secret") \o <<"U+200B">>}

\* Config.Validate: a bearer token is required when authentication is
\* enabled (REDIS_URL is set)
Validate(enable, token) ==
    IF enable /\ token = <<>>
    THEN "Bearer token is required when authentication is enabled"
    ELSE ""

\* the server next to the requests it serves
Server == 0

\* main up to ListenAndServe: it panics when the configuration is not valid
ServerStart(enable, token) ==
    [pc |-> IF Validate(enable, token) # "" THEN "panic" ELSE "serving",
     EnableAuthentication |-> enable, BearerToken |-> token]

InitAuth ==
    /\ store = [k \in Keys |-> EmptyHash]
    /\ tracker = [p \in TrackerProjects |-> <<>>]
    /\ last = NoStep("init")
    /\ hist = [k \in Keys |-> NoHistory]
    /\ \E enable \in BOOLEAN : \E token \in BearerTokens :
           procs = [p \in Procs \cup {Server} |->
                       IF p = Server THEN ServerStart(enable, token) ELSE Idle]

\* a drift plan and a report without operation
AuthReports ==
    Reports({"main"}, {"plan"}, {2}, {TRUE},
            {"prod"}, {<<>>}, {<<"1">>}, {"t1"}, {""})
    \cup InvalidReports

\* the request: its Authorization header and its body
Request(authHeader, payload) == payload @@ [Authorization |-> authHeader]

\* what the middleware answers to the header; "" when it calls the next
\* handler
Unauthorized(authHeader) ==
    LET cfg   == procs[Server]
        token == extractBearerToken(authHeader)
    IN  IF ~cfg.EnableAuthentication THEN ""
        ELSE IF token = <<>> THEN "Unauthorized: Bearer token required"
        ELSE IF ~validateToken(token, cfg.BearerToken)
        THEN "Unauthorized: Invalid token"
        ELSE ""

\* the middleware on a request: it answers 401, or it calls the next
\* handler (next.ServeHTTP), which is HandleEnvironments, on the goroutine
\* of the request; the requests received while another is in progress
\* carry the header "Bearer secret"
AuthenticationMiddleware(p, authHeader, payload) ==
    /\ procs[Server].pc = "serving"
    /\ IF Unauthorized(authHeader) = ""
       THEN /\ ~Quiet => authHeader = Chars("Bearer secret")
            /\ Receive(p, Request(authHeader, payload))
       ELSE /\ Quiet /\ p = 1
            /\ last' = [NoStep("auth") EXCEPT
                           !.payload = Request(authHeader, payload),
                           !.status = 401,
                           !.err = Unauthorized(authHeader)]
            /\ UNCHANGED <<store, tracker, hist, procs>>

Authenticate ==
    \E p \in Procs : \E authHeader \in AuthHeaders : \E payload \in AuthReports :
        AuthenticationMiddleware(p, authHeader, payload)

NextAuth == Authenticate \/ Proceed

SpecAuth == InitAuth /\ [][NextAuth]_vars

\* ------------------------------------------------------------------------
\* Vocabulary of the properties
\* ------------------------------------------------------------------------

Called(calls, op) == \E i \in 1..Len(calls) : calls[i].op = op

TrackerCalls(calls) == {i \in 1..Len(calls) : calls[i].tracker}

\* the last step was a report that passed validation
Accepted(l) == l.act = "report" /\ l.status # 400

\* the call that the last step made
CallOf(l) == l.calls[Len(l.calls)]

\* the last step was a call of a request to the store or to the tracker
IsCall(l) == l.act \in {"step", "report"} /\ Len(l.calls) > 0

\* the last step was the call op of a request
Did(l, op) == IsCall(l) /\ l.calls[Len(l.calls)].op = op

\* the call of the last step was carried out
Effective(l) == l.fault # Len(l.calls)

\* the last step answered a report that passed validation and was
\* received while no request was in progress, and every step since the
\* receipt was a call of its own: no other request was in progress
\* meanwhile and nobody else touched the store or the tracker
Alone(l) == Accepted(l) /\ l.alone

KeyOf(pl) == pl.RepoName \o ":" \o pl.Environment

\* the issues the engine created for key k
IssuesOf(tr, k) ==
    {pi \in TrackerProjects \X (1..MaxIssues) :
        IssueExists(tr, pi[1], pi[2]) /\ tr[pi[1]][pi[2]].by = k}

OpenIssuesOf(tr, k) ==
    {pi \in IssuesOf(tr, k) : tr[pi[1]][pi[2]].state = "opened"}

\* ------------------------------------------------------------------------
\* Properties
\* ------------------------------------------------------------------------

\* C1: a report increments driftIncrement, by exactly 1, if and only if it
\* is scheduled, a plan, with exit code 2, on the comparison branch.  Call
\* by call: the increment is made for such a report only and adds 1; after
\* the log write such a report, and no other, goes on to the increment; no
\* other call raises the counter.  And a report processed with nothing
\* else in progress leaves the counter one above what it found, any other
\* report where it found it or at 0, without an increment.
C1_IncrementIffDriftPlan ==
    [][/\ IsCall(last') =>
             LET pl   == last'.payload
                 k    == KeyOf(pl)
                 four == /\ pl.Scheduled = TRUE /\ pl.Operation = "plan"
                         /\ pl.ExitCode = 2 /\ pl.Branch = "main"
             IN  /\ Did(last', "HIncrBy") =>
                       /\ four
                       /\ Effective(last') =>
                              store'[k].driftIncrement = store[k].driftIncrement + 1
                 /\ ~Did(last', "HIncrBy") =>
                       store'[k].driftIncrement \in {store[k].driftIncrement, 0}
                 /\ (Did(last', "HMSetLog") /\ last'.act = "step") =>
                       (four <=> procs'[last'.p].pc = "HIncrBy")
       /\ Alone(last') =>
             LET pl == last'.payload
                 k  == KeyOf(pl)
             IN  IF pl.Scheduled = TRUE /\ pl.Operation = "plan" /\ pl.ExitCode = 2
                    /\ pl.Branch = "main"
                 THEN store'[k].driftIncrement = last'.before + 1
                 ELSE /\ store'[k].driftIncrement \in {last'.before, 0}
                      /\ ~Called(last'.calls, "HIncrBy")]_vars

\* C1 witness: a drift plan, processed with nothing else in progress, took
\* the counter from 1 to 2
C1_Witness ==
    /\ Alone(last) /\ last.status = 200
    /\ ScheduledDriftPlan(last.payload)
    /\ last.before = 1
    /\ Called(last.calls, "HIncrBy")
    /\ store[KeyOf(last.payload)].driftIncrement = 2

\* C2: a report runs the reset if and only if it is an apply, or a plan
\* with exit code 0 on the comparison branch.  Call by call: the write of 0
\* to driftIncrement is made for such a report only; after the log write
\* such a report, and no other, goes on to that write, whatever the record
\* holds; and the calls such a report makes to the tracker are those of the
\* reset, which follow the write.  And a resolving report processed with
\* nothing else in progress leaves the counter at 0, every call to the
\* tracker after the write.
C2_ResetIffResolving ==
    [][/\ IsCall(last') =>
             LET pl == last'.payload
                 k  == KeyOf(pl)
                 resolving ==
                     \/ pl.Operation = "apply"
                     \/ pl.Operation = "plan" /\ pl.ExitCode = 0 /\ pl.Branch = "main"
             IN  /\ Did(last', "HSetDrift") =>
                       /\ resolving
                       /\ Effective(last') => store'[k].driftIncrement = 0
                 /\ (Did(last', "HMSetLog") /\ last'.act = "step") =>
                       (resolving <=> procs'[last'.p].pc = "HSetDrift")
                 /\ (resolving /\ CallOf(last').tracker) =>
                       procs[last'.p].pc \in {"Reset:GetIssue", "PostNote", "PutClose"}
       /\ Alone(last') =>
             LET pl == last'.payload
                 k  == KeyOf(pl)
                 resolving ==
                     \/ pl.Operation = "apply"
                     \/ pl.Operation = "plan" /\ pl.ExitCode = 0 /\ pl.Branch = "main"
             IN  /\ resolving <=> Called(last'.calls, "HSetDrift")
                 /\ resolving =>
                     /\ store'[k].driftIncrement = 0
                     /\ \A i \in TrackerCalls(last'.calls) :
                            \E j \in 1..(i - 1) : last'.calls[j].op = "HSetDrift"]_vars

\* C2 witness: a failed apply on another branch reset a counter of 2 and
\* went on to close the tracked issue
C2_Witness ==
    /\ Alone(last)
    /\ last.payload.Operation = "apply" /\ last.payload.ExitCode = 2
    /\ last.payload.Branch = "dev"
    /\ last.before = 2
    /\ store[KeyOf(last.payload)].driftIncrement = 0
    /\ Called(last.calls, "PutClose")

\* C3: with the reports of a key processed one after another and no call
\* failing, between reports driftIncrement is the number of drift plans
\* since the last resolving report, and it is 0 right after an apply,
\* whatever the apply's exit code.
C3_CountsDriftPlans ==
    /\ \A k \in Keys :
           (hist[k].serial /\ hist[k].whole /\ Quiet)
               => store[k].driftIncrement = hist[k].run
    /\ (Alone(last) /\ last.payload.Operation = "apply")
           => store[KeyOf(last.payload)].driftIncrement = 0

\* C3 witness: an apply with exit code 2 right after two drift plans, the
\* three processed one after another
C3_Witness ==
    /\ Alone(last)
    /\ last.payload.Operation = "apply" /\ last.payload.ExitCode = 2
    /\ last.before = 2
    /\ hist[KeyOf(last.payload)].serial
    /\ hist[KeyOf(last.payload)].whole
    /\ hist[KeyOf(last.payload)].reports = 3
    /\ hist[KeyOf(last.payload)].run = 0
    /\ store[KeyOf(last.payload)].driftIncrement = 0

\* C4: driftIncrement is never negative, and a step that changes it either
\* adds 1 on behalf of a drift plan or sets it to 0 on behalf of a resolving
\* report.
C4_DriftChangesByOneOrReset ==
    [][\A k \in Keys :
          /\ store'[k].driftIncrement >= 0
          /\ store'[k].driftIncrement # store[k].driftIncrement
                 => /\ last'.act \in {"report", "step"}
                    /\ KeyOf(last'.payload) = k
                    /\ \/ /\ store'[k].driftIncrement = store[k].driftIncrement + 1
                          /\ ScheduledDriftPlan(last'.payload)
                       \/ /\ store'[k].driftIncrement = 0
                          /\ ResolvingRun(last'.payload)]_vars

\* C5: at any time, for any key, at most one issue that the engine opened
\* for the key is open in the tracker.
C5_AtMostOneOpenIssue ==
    \A k \in Keys : Cardinality(OpenIssuesOf(tracker, k)) <= 1

\* C6: between reports, issueID and issueURL of a record are both empty or
\* both non-empty.
C6_IssueFieldsTogether ==
    Quiet =>
        \A k \in Keys : (store[k].issueID = <<>>) <=> (store[k].issueURL = NoUrl)

\* C7: the initial hash of a key, with the tier, the project id, the
\* threshold and a driftIncrement of 0, is written once, by the first
\* report for the key: no report writes it to a record that exists.
C7_InitializedOnce ==
    [][(Did(last', "HMSetInit") /\ Effective(last'))
       => ~store[KeyOf(last'.payload)].exists]_vars

\* the record tracks the issue that its issueURL names
Tracked(st, k) == st[k].issueURL

\* C8: at a breach, when the record tracks an open issue, the engine
\* updates that issue's description, leaves issueID and issueURL as they
\* are and creates no issue; when the tracked issue is closed, it creates an
\* issue and issueID changes to the new issue's id.  For a drift plan
\* processed with nothing else in progress.
C8_UpdateOpenElseCreate ==
    [][(/\ Alone(last')
        /\ ScheduledDriftPlan(last'.payload)
        /\ last'.store0[KeyOf(last'.payload)].issueID # <<>>
        /\ Tracked(last'.store0, KeyOf(last'.payload)) # NoUrl
        /\ store'[KeyOf(last'.payload)].driftIncrement
               >= ThresholdValue(last'.store0, KeyOf(last'.payload)).val)
       =>
          LET k   == KeyOf(last'.payload)
              st0 == last'.store0
              tr0 == last'.tracker0
              url == Tracked(st0, k)
          IN  IF IssueIsOpen(tr0, url[1], url[2])
              THEN /\ \E i \in 1..Len(last'.calls) :
                          last'.calls[i] = TrackerCall("PutDescription", url[1], url[2])
                   /\ ~Called(last'.calls, "PostIssue")
                   /\ store'[k].issueID = st0[k].issueID
                   /\ store'[k].issueURL = st0[k].issueURL
              ELSE /\ Called(last'.calls, "PostIssue")
                   /\ store'[k].issueID # st0[k].issueID
                   /\ \E pi \in IssuesOf(tracker', k) \ IssuesOf(tr0, k) :
                          store'[k].issueID = Itoa(pi[2])]_vars

\* C9: a resolving report processed while the record tracks an open issue
\* closes that issue and leaves issueID and issueURL empty; processed
\* while issueID is empty, it only sets driftIncrement to 0 and calls the
\* tracker not at all.  For a report processed with nothing else in
\* progress.
C9_ResetClosesTrackedIssue ==
    [][(Alone(last') /\ ResolvingRun(last'.payload))
       =>
          LET k   == KeyOf(last'.payload)
              st0 == last'.store0
              tr0 == last'.tracker0
              url == Tracked(st0, k)
          IN  IF st0[k].issueID = <<>>
              THEN /\ TrackerCalls(last'.calls) = {}
                   /\ tracker' = tr0
                   /\ store'[k].driftIncrement = 0
                   /\ store'[k].issueID = <<>>
                   /\ store'[k].issueURL = st0[k].issueURL
                   /\ store'[k].planOutput = st0[k].planOutput
              ELSE (url # NoUrl /\ IssueIsOpen(tr0, url[1], url[2]))
                   => /\ ~IssueIsOpen(tracker', url[1], url[2])
                      /\ store'[k].issueID = <<>>
                      /\ store'[k].issueURL = NoUrl]_vars

\* C10: from an empty store, with a threshold T >= 1 and numeric project
\* ids, when only drift plans are processed for a key, one after another
\* and without a failing call, no issue exists for the key after fewer
\* than T of them, and after the T-th exactly one exists, whose id and URL
\* the record holds.
C10_IssueAtThreshold ==
    \A k \in Keys :
        (/\ hist[k].fresh /\ hist[k].serial /\ hist[k].whole /\ Quiet
         /\ hist[k].run >= 1 /\ Atoi(store[k].driftThreshold).ok
         /\ Atoi(store[k].driftThreshold).val >= 1)
        =>
            LET n == hist[k].run
                T == Atoi(store[k].driftThreshold).val
            IN  /\ n < T => /\ IssuesOf(tracker, k) = {}
                            /\ store[k].issueID = <<>>
                            /\ store[k].issueURL = NoUrl
                /\ n = T => /\ Cardinality(IssuesOf(tracker, k)) = 1
                            /\ \A pi \in IssuesOf(tracker, k) :
                                   /\ store[k].issueID = Itoa(pi[2])
                                   /\ store[k].issueURL = WebURL(pi[1], pi[2])
                /\ (n = 1 /\ T = 1) => /\ store[k].driftIncrement = 1
                                       /\ store[k].issueID # <<>>

\* C10 witness: with a threshold of 2 the second of two drift plans,
\* processed one after the other, created the key's one issue
C10_Witness ==
    \E k \in Keys :
        /\ hist[k].fresh /\ hist[k].serial /\ hist[k].run = 2
        /\ store[k].driftThreshold = <<"2">>
        /\ Alone(last)
        /\ last.before = 1
        /\ Called(last.calls, "PostIssue")
        /\ Cardinality(IssuesOf(tracker, k)) = 1
        /\ store[k].issueID = <<"1">>

\* C11: a drift plan whose count after the increment is below the key's
\* threshold makes no call to the tracker and writes neither issueID nor
\* issueURL.  Call by call: the threshold check that finds the count below
\* the threshold changes nothing and is followed by the read of the record
\* for the answer.  And such a report processed with nothing else in
\* progress leaves the tracker, issueID and issueURL as they were.
C11_BelowThresholdNoOp ==
    [][/\ (/\ Did(last', "HGet:driftThreshold")
           /\ procs[last'.p].pc = "CheckThreshold"
           /\ Effective(last')
           /\ ThresholdValue(store, KeyOf(last'.payload)).ok
           /\ procs[last'.p].incrementVal
                  < ThresholdValue(store, KeyOf(last'.payload)).val)
          => /\ last'.act = "step"
             /\ procs'[last'.p].pc = "HGetAll"
             /\ store' = store
             /\ tracker' = tracker
       /\ (/\ Alone(last')
           /\ ScheduledDriftPlan(last'.payload)
           /\ ThresholdValue(store', KeyOf(last'.payload)).ok
           /\ store'[KeyOf(last'.payload)].driftIncrement
                  < ThresholdValue(store', KeyOf(last'.payload)).val)
          =>
             LET k == KeyOf(last'.payload)
             IN  /\ TrackerCalls(last'.calls) = {}
                 /\ tracker' = last'.tracker0
                 /\ ~Called(last'.calls, "HSet:issueID")
                 /\ ~Called(last'.calls, "HSet:issueURL")
                 /\ store'[k].issueID = last'.store0[k].issueID
                 /\ store'[k].issueURL = last'.store0[k].issueURL
                 /\ last'.status = 200]_vars

\* C11 witness: with a threshold of 2 the first drift plan took the count to
\* 1 and no issue exists
C11_Witness ==
    /\ Alone(last) /\ last.status = 200
    /\ ScheduledDriftPlan(last.payload)
    /\ store[KeyOf(last.payload)].driftThreshold = <<"2">>
    /\ store[KeyOf(last.payload)].driftIncrement = 1
    /\ Called(last.calls, "HIncrBy")
    /\ Called(last.calls, "HGet:driftThreshold")
    /\ IssuesOf(tracker, KeyOf(last.payload)) = {}

\* C12: CheckThreshold answers true exactly when the count is at least the
\* key's threshold (the stored number, the default when none is stored):
\* true at the threshold, false one below it; and it reads one field and
\* writes nothing.
C12_BreachedIffAtLeastThreshold ==
    [][last'.act = "check" =>
          \A k \in Keys :
              LET str == store[k].driftThreshold
                  thr == IF str = <<>> THEN [ok |-> TRUE, val |-> 1] ELSE Atoi(str)
                  n   == last'.before
              IN  /\ store' = store
                  /\ tracker' = tracker
                  /\ last'.calls = <<StoreCall("HGet:driftThreshold")>>
                  /\ thr.ok =>
                        /\ last'.err = ""
                        /\ (last'.status = 1) <=> (n >= thr.val)
                        /\ n = thr.val => last'.status = 1
                        /\ n = thr.val - 1 => last'.status = 0]_vars

\* C12 witness: with a stored threshold of 10 the count 10 is a breach
C12_Witness ==
    /\ last.act = "check"
    /\ \E k \in Keys : store[k].driftThreshold = <<"1", "0">>
    /\ last.before = 10
    /\ last.status = 1
    /\ last.err = ""

\* C13: a report processed right after the same report had been processed
\* and answered, nothing else in progress during either, leaves
\* driftIncrement, issueID, issueURL, the identity fields and the key's open
\* issues as the first processing left them.
C13_DuplicateReportIdempotent ==
    [][(Alone(last') /\ last'.again)
       =>
          LET k   == KeyOf(last'.payload)
              st0 == last'.store0
          IN  /\ store'[k].driftIncrement = st0[k].driftIncrement
              /\ store'[k].issueID = st0[k].issueID
              /\ store'[k].issueURL = st0[k].issueURL
              /\ store'[k].environmentTier = st0[k].environmentTier
              /\ store'[k].projectID = st0[k].projectID
              /\ store'[k].driftThreshold = st0[k].driftThreshold
              /\ OpenIssuesOf(tracker', k) = OpenIssuesOf(last'.tracker0, k)]_vars

\* C14: a report on a branch other than the comparison branch, processed
\* with nothing else in progress, leaves driftIncrement, issueID and
\* issueURL of its key as they were.
C14_OtherBranchKeepsDriftState ==
    [][(Alone(last') /\ last'.payload.Branch # "main")
       =>
          LET k   == KeyOf(last'.payload)
              st0 == last'.store0
          IN  /\ store'[k].driftIncrement = st0[k].driftIncrement
              /\ store'[k].issueID = st0[k].issueID
              /\ store'[k].issueURL = st0[k].issueURL]_vars

\* C15: when only drift plans were received for a key and no call failed,
\* whatever the order in which the calls of the requests interleaved, once
\* every request has been answered driftIncrement is the number of drift
\* plans received.
C15_NoIncrementLost ==
    \A k \in Keys :
        (hist[k].fresh /\ hist[k].whole /\ Quiet)
            => store[k].driftIncrement = hist[k].run

\* C16: when only drift plans were received for a key, their interleaved
\* breach procedures have left two or more open issues for it and every
\* request has been answered, the record references one of the issues
\* only: issueID is the id of one of them and issueURL the URL of one of
\* them, as the last writes left them.
C16_RecordReferencesOneOfTwo ==
    \A k \in Keys :
        (/\ hist[k].fresh
         /\ Cardinality(OpenIssuesOf(tracker, k)) >= 2
         /\ Quiet)
        => /\ \E pi \in OpenIssuesOf(tracker, k) : store[k].issueID = Itoa(pi[2])
           /\ \E pi \in OpenIssuesOf(tracker, k) :
                  store[k].issueURL = WebURL(pi[1], pi[2])

\* C16 witness: two drift plans were received, the second while the first
\* was in progress, and answered, nothing else; both created an issue, both
\* issues are open, and the record references the second
C16_Witness ==
    \E k \in Keys :
        /\ hist[k].fresh /\ hist[k].reports = 2 /\ ~hist[k].serial
        /\ Quiet
        /\ Cardinality(OpenIssuesOf(tracker, k)) = 2
        /\ store[k].issueID = <<"2">>
        /\ store[k].issueURL = WebURL(1, 2)

\* C17: a report one of whose calls to the store or the tracker failed
\* (other than the comment of a close, which is best effort) made no call
\* after the failed one and was answered with an error.
C17_FailureStopsReport ==
    (/\ last.act = "report"
     /\ last.fault > 0
     /\ last.calls[last.fault].op # "PostNote")
    => /\ last.status = 500
       /\ last.err # ""
       /\ Len(last.calls) = last.fault

\* the report l made the call op and the call succeeded
Wrote(l, op) == \E i \in 1..Len(l.calls) : l.calls[i].op = op /\ i # l.fault

\* C18: a report that is answered with an error is not rolled back: the
\* answer leaves the store as the report's calls left it, and every store
\* write the report completed is in the record: the initial hash, the log
\* entry, the incremented count (or the reset one), the issue id.  The
\* writes are read off a report processed with nothing else in progress.
C18_CompletedWritesStay ==
    [][(Accepted(last') /\ last'.status = 500)
       =>
          /\ store' = store
          /\ last'.alone =>
                LET l   == last'
                    pl  == last'.payload
                    k   == KeyOf(last'.payload)
                    st0 == last'.store0
                IN  /\ Wrote(l, "HMSetInit") =>
                          /\ store'[k].environmentTier = pl.EnvironmentTier
                          /\ store'[k].projectID = pl.ProjectID
                    /\ Wrote(l, "HMSetLog") =>
                          store'[k].log =
                              <<IF pl.Timestamp = "" THEN "now" ELSE pl.Timestamp,
                                pl.Operation>>
                    /\ Wrote(l, "HIncrBy") =>
                          store'[k].driftIncrement = st0[k].driftIncrement + 1
                    /\ Wrote(l, "HSetDrift") => store'[k].driftIncrement = 0
                    /\ (Wrote(l, "PostIssue") /\ Wrote(l, "HSet:issueID")) =>
                          \E i \in 1..Len(l.calls) :
                              /\ l.calls[i].op = "PostIssue"
                              /\ store'[k].issueID = Itoa(l.calls[i].iid)]_vars

\* C18 witness: a drift plan whose project id is no number took the count
\* from 1 to 2 and wrote its log entry, and was answered with an error
C18_Witness ==
    /\ Alone(last) /\ last.status = 500
    /\ last.fault = 0
    /\ last.err = "invalid project ID"
    /\ last.payload.ProjectID = <<"p">>
    /\ last.before = 1
    /\ Wrote(last, "HIncrBy")
    /\ store[KeyOf(last.payload)].driftIncrement = 2
    /\ store[KeyOf(last.payload)].log = <<"t1", "plan">>

\* C19: when the write of issueID fails right after the tracker created an
\* issue, or the answer to the creation cannot be read, the issue is open
\* and the record does not reference it; and a breach that finds no stored
\* id creates an issue although an issue of the key is open, which makes
\* one open issue more.  The failing write is followed call by call; the
\* rest is read off a report processed with nothing else in progress.
C19_OrphanThenDuplicate ==
    [][/\ (/\ Did(last', "HSet:issueID")
           /\ procs[last'.p].pc = "HSet:issueID"
           /\ ~Effective(last'))
          => /\ last'.act = "report" /\ last'.status = 500
             /\ store' = store
             /\ IssueIsOpen(tracker', Atoi(last'.payload.ProjectID).val,
                            procs[last'.p].iid)
       /\ Alone(last') =>
          LET l   == last'
              k   == KeyOf(last'.payload)
              st0 == last'.store0
              tr0 == last'.tracker0
          IN  /\ (/\ l.fault > 1
                  /\ l.calls[l.fault].op = "HSet:issueID"
                  /\ l.calls[l.fault - 1].op = "PostIssue")
                 => LET made == l.calls[l.fault - 1]
                    IN  /\ l.status = 500
                        /\ IssueIsOpen(tracker', made.project, made.iid)
                        /\ <<made.project, made.iid>> \notin IssuesOf(tr0, k)
                        /\ store'[k].issueID = st0[k].issueID
                        /\ store'[k].issueURL = st0[k].issueURL
                        /\ store'[k].issueURL # WebURL(made.project, made.iid)
              /\ l.fault < 0
                 => LET made == l.calls[0 - l.fault]
                    IN  /\ made.op = "PostIssue"
                        /\ Len(l.calls) = 0 - l.fault
                        /\ l.status = 500
                        /\ l.err = "error decoding response"
                        /\ IssueIsOpen(tracker', made.project, made.iid)
                        /\ <<made.project, made.iid>> \notin IssuesOf(tr0, k)
                        /\ store'[k].issueID = st0[k].issueID
                        /\ store'[k].issueURL = st0[k].issueURL
              /\ (/\ l.fault = 0 /\ l.status = 200
                  /\ ScheduledDriftPlan(l.payload)
                  /\ st0[k].issueID = <<>>
                  /\ OpenIssuesOf(tr0, k) # {}
                  /\ ThresholdValue(store', k).ok
                  /\ store'[k].driftIncrement >= ThresholdValue(store', k).val)
                 => /\ Wrote(l, "PostIssue")
                    /\ Cardinality(OpenIssuesOf(tracker', k))
                           = Cardinality(OpenIssuesOf(tr0, k)) + 1]_vars

\* C19 witness: after a report was cut short, a drift plan found no stored
\* id, created issue 2 and stored it, while issue 1 is open as well
C19_Witness ==
    \E k \in Keys :
        /\ ~hist[k].whole
        /\ Alone(last) /\ last.fault = 0 /\ last.status = 200
        /\ KeyOf(last.payload) = k
        /\ last.store0[k].issueID = <<>>
        /\ Called(last.calls, "PostIssue")
        /\ ~Called(last.calls, "GetIssue")
        /\ OpenIssuesOf(tracker, k) = {<<1, 1>>, <<1, 2>>}
        /\ store[k].issueID = <<"2">>

\* C20: a resolving report whose close call fails leaves issueID and
\* issueURL as they were, issueID still naming the issue, which is still
\* open; and a resolving report without a failing call that finds the
\* stored issue open closes it and clears both fields.  For a report
\* processed with nothing else in progress.
C20_FailedCloseIsRetried ==
    [][(Alone(last') /\ ResolvingRun(last'.payload)) =>
          LET l   == last'
              k   == KeyOf(last'.payload)
              st0 == last'.store0
              tr0 == last'.tracker0
          IN  /\ (l.fault > 0 /\ l.calls[l.fault].op = "PutClose")
                 => LET call == l.calls[l.fault]
                    IN  /\ l.status = 500
                        /\ Len(l.calls) = l.fault
                        /\ store'[k].issueID = st0[k].issueID
                        /\ store'[k].issueURL = st0[k].issueURL
                        /\ store'[k].issueID = Itoa(call.iid)
                        /\ IssueIsOpen(tracker', call.project, call.iid)
              /\ (/\ l.fault = 0
                  /\ Atoi(st0[k].issueID).ok
                  /\ Atoi(l.payload.ProjectID).ok
                  /\ IssueIsOpen(tr0, Atoi(l.payload.ProjectID).val,
                                 Atoi(st0[k].issueID).val))
                 => /\ l.status = 200
                    /\ Wrote(l, "PutClose")
                    /\ ~IssueIsOpen(tracker', Atoi(l.payload.ProjectID).val,
                                    Atoi(st0[k].issueID).val)
                    /\ store'[k].issueID = <<>>
                    /\ store'[k].issueURL = NoUrl]_vars

\* C20 witness: the close of issue 1 failed during an apply; the record
\* names issue 1, which is open
C20_Witness ==
    /\ Alone(last) /\ last.status = 500
    /\ last.payload.Operation = "apply"
    /\ last.fault > 0
    /\ last.calls[last.fault] = TrackerCall("PutClose", 1, 1)
    /\ store[KeyOf(last.payload)].issueID = <<"1">>
    /\ store[KeyOf(last.payload)].issueURL = WebURL(1, 1)
    /\ IssueIsOpen(tracker, 1, 1)

\* C21: a resolving report processed while the issue the record references
\* is closed makes no close call and leaves issueID and issueURL as they
\* were; and while the referenced issue is closed, the only report that
\* changes issueID or issueURL is a drift plan that creates an issue.  For a
\* report processed with nothing else in progress.
C21_ClosedIssueKeepsReference ==
    [][(/\ Alone(last')
        /\ last'.store0[KeyOf(last'.payload)].issueID # <<>>
        /\ Tracked(last'.store0, KeyOf(last'.payload)) # NoUrl
        /\ ~IssueIsOpen(last'.tracker0,
                        Tracked(last'.store0, KeyOf(last'.payload))[1],
                        Tracked(last'.store0, KeyOf(last'.payload))[2]))
       =>
          LET k   == KeyOf(last'.payload)
              st0 == last'.store0
          IN  /\ ResolvingRun(last'.payload) =>
                    /\ ~Called(last'.calls, "PutClose")
                    /\ tracker' = last'.tracker0
                    /\ store'[k].issueID = st0[k].issueID
                    /\ store'[k].issueURL = st0[k].issueURL
              /\ (\/ store'[k].issueID # st0[k].issueID
                  \/ store'[k].issueURL # st0[k].issueURL)
                 => /\ ScheduledDriftPlan(last'.payload)
                    /\ Called(last'.calls, "PostIssue")]_vars

\* C22: every call to the tracker that a drift plan makes goes to the
\* project whose id the record stores; and when the stored project id is
\* no number, a drift plan that reaches the threshold fails with "invalid
\* project ID" and calls the tracker not at all.  For a drift plan
\* processed with nothing else in progress.
C22_BreachUsesStoredProject ==
    (Alone(last) /\ ScheduledDriftPlan(last.payload) /\ last.fault = 0)
    =>
       LET k      == KeyOf(last.payload)
           stored == Atoi(store[k].projectID)
       IN  /\ stored.ok =>
                 \A i \in TrackerCalls(last.calls) :
                     last.calls[i].project = stored.val
           /\ (/\ ~stored.ok
               /\ ThresholdValue(store, k).ok
               /\ store[k].driftIncrement >= ThresholdValue(store, k).val)
              => /\ last.err = "invalid project ID"
                 /\ TrackerCalls(last.calls) = {}

\* C23: GetThreshold returns the integer the record stores as driftThreshold
\* and the configured default when the field is empty or the record does
\* not exist; it returns an error when the read fails and "invalid
\* threshold value" when the stored text is no integer; in both cases
\* CheckThreshold returns an error and not true.  Neither writes anything.
C23_ThresholdOrError ==
    [][last'.act \in {"threshold", "check", "checkfault"} =>
          \A k \in Keys :
              LET str == store[k].driftThreshold
                  l   == last'
              IN  /\ store' = store
                  /\ tracker' = tracker
                  /\ l.calls = <<StoreCall("HGet:driftThreshold")>>
                  /\ l.act = "threshold" =>
                        /\ l.fault = 1 =>
                              l.err = "error getting field" /\ l.status = 0
                        /\ (l.fault = 0 /\ str = <<>>) =>
                              l.err = "" /\ l.status = 1
                        /\ (l.fault = 0 /\ str # <<>> /\ Atoi(str).ok) =>
                              l.err = "" /\ l.status = Atoi(str).val
                        /\ (l.fault = 0 /\ str = <<"1", "0">>) => l.status = 10
                        /\ (l.fault = 0 /\ str = <<"-", "1">>) => l.status = 0 - 1
                        /\ (l.fault = 0 /\ str \in {<<"x">>, <<"1", "x">>}) =>
                              l.err = "invalid threshold value" /\ l.status = 0
                        /\ (l.fault = 0 /\ str \in OutOfRange) =>
                              l.err = "invalid threshold value" /\ l.status = 0
                        /\ (l.fault = 0 /\ str = <<"0", "0", "2">>) => l.status = 2
                  /\ l.act = "checkfault" =>
                        l.err = "error getting field" /\ l.status = 0
                  /\ (l.act = "check" /\ str # <<>> /\ ~Atoi(str).ok) =>
                        l.err = "invalid threshold value" /\ l.status = 0]_vars

\* C23 witness: GetThreshold on a record whose driftThreshold is "1x"
\* returned "invalid threshold value"
C23_Witness ==
    /\ last.act = "threshold"
    /\ last.fault = 0
    /\ \E k \in Keys : store[k].driftThreshold = <<"1", "x">>
    /\ last.err = "invalid threshold value"
    /\ last.calls = <<StoreCall("HGet:driftThreshold")>>

\* C24: a report is rejected exactly when one of repoName, branchName,
\* environment, environmentTier, projectId, operation is empty, with the
\* message of the first empty one in that order; a report with the six set
\* is not rejected, whatever its other fields.
C24_RejectsFirstEmptyField ==
    last.act = "report" =>
        LET pl      == last.payload
            missing == <<pl.RepoName = "", pl.Branch = "", pl.Environment = "",
                         pl.EnvironmentTier = "", pl.ProjectID = <<>>,
                         pl.Operation = "">>
            message == <<"missing repoName in payload",
                         "missing branchName in payload",
                         "missing environment in payload",
                         "missing environmentTier in payload",
                         "missing projectId in payload",
                         "invalid terraform operation in payload">>
        IN  /\ (last.status = 400) <=> (\E i \in 1..6 : missing[i])
            /\ \A i \in 1..6 :
                   (missing[i] /\ \A j \in 1..(i - 1) : ~missing[j])
                       => last.err = message[i]
            /\ (\A i \in 1..6 : ~missing[i]) => last.status \in {200, 500}

\* C24 witness: a report without environmentTier and without operation was
\* rejected for environmentTier
C24_Witness ==
    /\ last.act = "report" /\ last.status = 400
    /\ last.payload.RepoName # "" /\ last.payload.Branch # ""
    /\ last.payload.Environment # ""
    /\ last.payload.EnvironmentTier = "" /\ last.payload.Operation = ""
    /\ last.err = "missing environmentTier in payload"

\* C25: a report with one of the six required fields empty is answered 400
\* without a call to the store or to the tracker: the store and the tracker
\* are after it as they were before it.
C25_RejectedReportChangesNothing ==
    [][(/\ last'.act = "report"
        /\ \/ last'.payload.RepoName = "" \/ last'.payload.Branch = ""
           \/ last'.payload.Environment = "" \/ last'.payload.EnvironmentTier = ""
           \/ last'.payload.ProjectID = <<>> \/ last'.payload.Operation = "")
       => /\ last'.status = 400
          /\ last'.calls = <<>>
          /\ store' = store
          /\ tracker' = tracker]_vars

\* C25 witness: a report without branch was rejected while the record of
\* its key holds a count of 1 and an open issue
C25_Witness ==
    /\ last.act = "report" /\ last.status = 400
    /\ last.payload.RepoName = "svc" /\ last.payload.Environment = "prod"
    /\ last.payload.Branch = ""
    /\ store["svc:prod"].driftIncrement = 1
    /\ store["svc:prod"].issueID = <<"1">>
    /\ IssueIsOpen(tracker, 1, 1)

\* C26: every accepted report writes the record's log with its timestamp
\* ("now" when it has none) and operation, and the rest of its processing
\* leaves the log alone.  Call by call: the log write sets the log to the
\* report's entry, and no other call of a request changes the log.  And
\* after a report processed with nothing else in progress whose
\* initialization and log write did not fail, the log holds the report's
\* entry, whether the report escalated, resolved, did neither, or failed
\* in a later call.
C26_LogHoldsLastReport ==
    [][/\ IsCall(last') =>
             LET pl == last'.payload
                 k  == KeyOf(pl)
             IN  IF Did(last', "HMSetLog") /\ Effective(last')
                 THEN store'[k].log =
                          <<IF pl.Timestamp = "" THEN "now" ELSE pl.Timestamp,
                            pl.Operation>>
                 ELSE \A k2 \in DOMAIN store : store'[k2].log = store[k2].log
       /\ LET pl    == last'.payload
              logAt == IF Called(last'.calls, "HMSetInit") THEN 3 ELSE 2
          IN  (Alone(last') /\ (last'.fault <= 0 \/ last'.fault > logAt))
              => /\ Len(last'.calls) >= logAt
                 /\ last'.calls[logAt].op = "HMSetLog"
                 /\ store'[KeyOf(pl)].log =
                        <<IF pl.Timestamp = "" THEN "now" ELSE pl.Timestamp,
                          pl.Operation>>]_vars

\* C26 witness: an apply without timestamp, processed after a drift plan,
\* failed at the close of the issue; the log holds its entry
C26_Witness ==
    /\ Alone(last) /\ last.status = 500
    /\ last.payload.Operation = "apply" /\ last.payload.Timestamp = ""
    /\ last.fault > 2
    /\ last.calls[last.fault].op = "PutClose"
    /\ store[KeyOf(last.payload)].log = <<"now", "apply">>

\* C27: a drift plan that carries output replaces planOutput by exactly
\* its output, and nothing else writes planOutput; an issue is described
\* with the planOutput that the report read from the record.  Call by
\* call: the write of planOutput is made for a drift plan with output and
\* stores that output; no other call changes planOutput; a creation or an
\* update describes the issue with what the request read.  And after a
\* report processed with nothing else in progress, planOutput is the
\* report's output if it is a drift plan with output and else what it was,
\* and the issue the report created or updated is described with it.
C27_PlanOutputIsLatest ==
    [][/\ IsCall(last') =>
             LET pl   == last'.payload
                 k    == KeyOf(pl)
                 call == CallOf(last')
             IN  /\ IF Did(last', "HSetPlanOutput")
                    THEN /\ ScheduledDriftPlan(pl) /\ pl.PlanOutput # ""
                         /\ store'[k].planOutput = pl.PlanOutput
                    ELSE \A k2 \in DOMAIN store :
                             store'[k2].planOutput = store[k2].planOutput
                 /\ call.op \in {"PostIssue", "PutDescription"}
                        => tracker'[call.project][call.iid].desc.planOutput
                               = procs[last'.p].planOutput
       /\ Alone(last') =>
             LET pl == last'.payload
                 k  == KeyOf(last'.payload)
             IN  /\ store'[k].planOutput =
                        IF ScheduledDriftPlan(pl) /\ pl.PlanOutput # ""
                        THEN pl.PlanOutput ELSE last'.store0[k].planOutput
                 /\ \A i \in 1..Len(last'.calls) :
                        last'.calls[i].op \in {"PostIssue", "PutDescription"}
                            => tracker'[last'.calls[i].project][last'.calls[i].iid]
                                   .desc.planOutput = store'[k].planOutput]_vars

\* C27 witness: the record held the output "o1"; a drift plan carrying "o2"
\* replaced it and issue 1 was updated with "o2"
C27_Witness ==
    /\ Alone(last) /\ last.status = 200
    /\ last.payload.PlanOutput = "o2"
    /\ last.before = 1
    /\ last.store0[KeyOf(last.payload)].planOutput = "o1"
    /\ Called(last.calls, "PutDescription")
    /\ store[KeyOf(last.payload)].planOutput = "o2"
    /\ IssueExists(tracker, 1, 1)
    /\ tracker[1][1].desc.planOutput = "o2"
    /\ tracker[1][1].desc.drift = 2

\* C28: a report for a key, answered with an outcome or with an error,
\* leaves the record of every other key as it was, and creates none: no
\* step of a request, from its receipt to its answer, changes the record
\* of a key that is not the request's.
C28_OtherKeysUntouched ==
    [][last'.act \in {"receive", "step", "report"} =>
          \A k \in DOMAIN store :
              k # KeyOf(last'.payload) => store'[k] = store[k]]_vars

\* C28 witness: a report for svc:prod failed on its stored threshold, which
\* is no number, while web:prod has a record with a count of 1 and an issue
C28_Witness ==
    /\ Accepted(last) /\ last.status = 500
    /\ KeyOf(last.payload) = "svc:prod"
    /\ last.err = "invalid threshold value"
    /\ store["svc:prod"].driftThreshold = <<"x">>
    /\ store["web:prod"].exists
    /\ store["web:prod"].driftIncrement = 1
    /\ store["web:prod"].issueID = <<"1">>

\* C29: for every repository name and environment, empty ones and ones
\* containing ":" included, GenerateKey returns the repository name, then
\* one ":", then the environment, and nothing else.
C29_KeyIsRepoColonEnvironment ==
    last.act = "key" =>
        LET r   == last.payload.RepoName
            e   == last.payload.Environment
            key == last.err
        IN  /\ Len(key) = Len(r) + 1 + Len(e)
            /\ SubSeq(key, 1, Len(r)) = r
            /\ SubSeq(key, Len(r) + 1, Len(r) + 1) = ":"
            /\ SubSeq(key, Len(r) + 2, Len(key)) = e
            /\ (r = "my-repo" /\ e = "production") => key = "my-repo:production"
            /\ (r = "" /\ e = "production") => key = ":production"
            /\ (r = "my-repo" /\ e = "") => key = "my-repo:"
            /\ (r = "" /\ e = "") => key = ":"
            /\ (r = "repo:with:colons" /\ e = "prod") => key = "repo:with:colons:prod"
            /\ (r = "a:b" /\ e = "c") => key = "a:b:c"
            /\ (r = "a" /\ e = "b:c") => key = "a:b:c"

\* C29 witness: the key of a repository name that ends with ":" and no
\* environment is the name and one more ":"
C29_Witness ==
    /\ last.act = "key"
    /\ last.payload.RepoName = "x:"
    /\ last.payload.Environment = ""
    /\ last.err = "x::"

\* C30: GetIssueStatus reads a 404 as not open, without error, any other
\* status outside 200..299 as an error, and a status in 200..299 by the
\* issue's state.  A drift plan whose status check is answered 404 goes on
\* to create an issue and stores it; a resolving report whose status check
\* is answered 404 makes no close call; a report whose status check fails
\* ends there with an error.  Call by call, and for the whole of a report
\* processed with nothing else in progress.
C30_MissingIssueIsNotOpen ==
    [][/\ last'.act = "status" =>
             LET call == last'.calls[1]
                 code == last'.status
             IN  /\ code = 404 => (last'.err = "" /\ last'.before = 0)
                 /\ (code # 404 /\ (code < 200 \/ code > 299)) =>
                        (last'.err # "" /\ last'.before = 0)
                 /\ (code >= 200 /\ code <= 299) =>
                        /\ last'.err = ""
                        /\ (last'.before = 1) <=>
                               (tracker[call.project][call.iid].state = "opened")
       /\ Did(last', "GetIssue") =>
             LET call == CallOf(last')
                 pl   == last'.payload
             IN  /\ tracker' = tracker /\ store' = store
                 /\ IF ~Effective(last')
                    THEN last'.act = "report" /\ last'.status = 500
                    ELSE ~IssueExists(tracker, call.project, call.iid) =>
                             /\ last'.act = "step"
                             /\ procs'[last'.p].pc =
                                    IF ScheduledDriftPlan(pl) THEN "PostIssue"
                                    ELSE "HGetAll"
       /\ Alone(last') =>
             \A i \in 1..Len(last'.calls) :
                 last'.calls[i].op = "GetIssue" =>
                     LET call == last'.calls[i]
                         pl   == last'.payload
                         k    == KeyOf(last'.payload)
                         tr0  == last'.tracker0
                     IN  IF i = last'.fault
                         THEN /\ last'.status = 500
                              /\ Len(last'.calls) = i
                              /\ tracker' = tr0
                         ELSE ~IssueExists(tr0, call.project, call.iid) =>
                                 /\ last'.status = 200
                                 /\ ScheduledDriftPlan(pl) =>
                                        /\ Len(last'.calls) > i
                                        /\ last'.calls[i + 1].op = "PostIssue"
                                        /\ IssueIsOpen(tracker', call.project,
                                                       last'.calls[i + 1].iid)
                                        /\ store'[k].issueID =
                                               Itoa(last'.calls[i + 1].iid)
                                 /\ ResolvingRun(pl) =>
                                        /\ ~Called(last'.calls, "PostNote")
                                        /\ ~Called(last'.calls, "PutClose")
                                        /\ tracker' = tr0]_vars

\* C30 witness: the record names issue 1, project 2 has no issue; a drift
\* plan addressed to project 2 had its status check answered 404 and
\* created issue 1 of project 2
C30_Witness ==
    /\ Alone(last) /\ last.status = 200
    /\ ScheduledDriftPlan(last.payload)
    /\ \E i \in 1..(Len(last.calls) - 1) :
           /\ last.calls[i] = TrackerCall("GetIssue", 2, 1)
           /\ last.calls[i + 1] = TrackerCall("PostIssue", 2, 1)
    /\ IssueExists(tracker, 1, 1)
    /\ Len(tracker[2]) = 1
    /\ store[KeyOf(last.payload)].issueURL = WebURL(2, 1)

\* C31: a request whose body cannot be read or parsed, and a report that
\* fails validation, are answered 400 and ProcessDriftDetection is not
\* called (no call is made, the store and the tracker stay as they were);
\* a report whose processing returns an error is answered 500 with that
\* error; 200 is answered only when the processing returned an outcome.
C31_AnswerFollowsOutcome ==
    [][/\ last'.act = "body"
          => /\ last'.status = 400 /\ last'.calls = <<>>
             /\ store' = store /\ tracker' = tracker
       /\ (last'.act = "report" /\ ValidatePayload(last'.payload) # "")
          => /\ last'.status = 400 /\ last'.calls = <<>>
             /\ last'.err = ValidatePayload(last'.payload)
             /\ store' = store /\ tracker' = tracker
       /\ (last'.act = "report" /\ ValidatePayload(last'.payload) = "")
          => /\ Len(last'.calls) > 0
             /\ last'.err # "" => last'.status = 500
             /\ last'.err = "" => last'.status = 200
       /\ (last'.act \in {"report", "body", "method"} /\ last'.status = 200)
          => /\ last'.act = "report"
             /\ ValidatePayload(last'.payload) = ""
             /\ last'.err = ""
             /\ last'.calls[Len(last'.calls)].op = "HGetAll"]_vars

\* C31 witness: a drift plan whose status check failed was answered 500
\* while the record holds a count of 2 and an issue
C31_Witness ==
    /\ last.act = "report" /\ last.status = 500
    /\ last.fault > 0 /\ last.calls[last.fault].op = "GetIssue"
    /\ ScheduledDriftPlan(last.payload)
    /\ store["svc:prod"].driftIncrement = 2
    /\ store["svc:prod"].issueID = <<"1">>

\* C32: reports of one project processed one after the other without
\* failures, the tracker changed by the engine only: between reports, a
\* record whose issueID names an open issue of the project has a
\* driftIncrement of at least the key's threshold.
C32_OpenIssueMeansBreached ==
    \A k \in Keys :
        (/\ hist[k].serial /\ hist[k].whole /\ Quiet
         /\ store[k].issueID # <<>>
         /\ Atoi(store[k].issueID).ok
         /\ Atoi(store[k].projectID).ok
         /\ IssueIsOpen(tracker, Atoi(store[k].projectID).val,
                        Atoi(store[k].issueID).val))
        => store[k].driftIncrement >= ThresholdValue(store, k).val

\* C32 witness: after a breach, a reset that closed issue 1 and a second
\* breach, one after the other, the record names the open issue 2 and the
\* count is 1, the threshold
C32_Witness ==
    /\ Alone(last) /\ ScheduledDriftPlan(last.payload)
    /\ hist["svc:prod"].serial /\ hist["svc:prod"].reports = 3
    /\ store["svc:prod"].issueID = <<"2">>
    /\ IssueIsOpen(tracker, 1, 2)
    /\ ~IssueIsOpen(tracker, 1, 1)
    /\ store["svc:prod"].driftIncrement = 1
    /\ ThresholdValue(store, "svc:prod").val = 1

\* HandleThresholdBreach when no call fails and no other request makes a
\* call meanwhile: the state after its calls
BreachAlone(c, env, driftCount) ==
    LET key == env.Key
        c1  == CheckThreshold(c, key, driftCount)
    IN  IF c1.err # "" \/ ~Exceeded(c.store, key, driftCount) THEN c1
        ELSE IF ~Atoi(env.ProjectID).ok THEN Error(c1, "invalid project ID")
        ELSE
        LET project  == Atoi(env.ProjectID).val
            existing == ExistingIssueID(c.store[key].issueID)
            c4 == GetThreshold(GetField(GetField(c1, "issueID"), "planOutput"), key)
            thr == ThresholdValue(c.store, key).val
            c5 == IF existing > 0 THEN GetIssueStatus(c4, project, existing) ELSE c4
        IN  IF c4.err # "" THEN c4
            ELSE IF existing > 0 /\ IssueIsOpen(c.tracker, project, existing)
            THEN UpdateIssueDescription(c5, project, existing, env.Environment,
                                        driftCount, thr, c.store[key].planOutput)
            ELSE
            LET c6 == CreateDriftIssue(c5, project, env.Environment, driftCount,
                                       thr, c.store[key].planOutput, key)
                n  == c6.calls[Len(c6.calls)].iid
            IN  IF c6.err # "" THEN c6
                ELSE SetIssueURL(SetIssueID(c6, key, Itoa(n)), key, WebURL(project, n))

\* ResetDriftIncrement when no call fails and no other request makes a call
\* meanwhile
ResetAlone(c, env) ==
    LET key        == env.Key
        c2         == GetField(ResetDrift(c, key), "issueID")
        issueIDStr == c.store[key].issueID
    IN  IF issueIDStr = <<>> THEN c2
        ELSE IF ~Atoi(issueIDStr).ok \/ Atoi(issueIDStr).val <= 0 THEN c2
        ELSE IF ~Atoi(env.ProjectID).ok THEN Error(c2, "invalid project ID")
        ELSE
        LET iid     == Atoi(issueIDStr).val
            project == Atoi(env.ProjectID).val
            c3      == GetIssueStatus(c2, project, iid)
        IN  IF ~IssueIsOpen(c.tracker, project, iid) THEN c3
            ELSE LET c4 == CloseIssue(AddComment(c3, project, iid), project, iid)
                 IN  IF c4.err # "" THEN c4
                     ELSE SetIssueURL(SetIssueID(c4, key, <<>>), key, NoUrl)

\* ProcessDriftDetection when no call fails and no other request makes a
\* call meanwhile: the store, the tracker, the calls and the error
ProcessAlone(st, tr, payload) ==
    LET key       == GenerateKey(payload.RepoName, payload.Environment)
        threshold == IF payload.DriftThreshold = <<>>
                     THEN Itoa(ConfigDriftThreshold) ELSE payload.DriftThreshold
        timestamp == IF payload.Timestamp = "" THEN Now ELSE payload.Timestamp
        env       == EnvironmentInfo(payload, key)
        c0 == CheckExists(Begin(st, tr, 0))
        c1 == IF Exists(st, key) THEN c0
              ELSE InitializeEnvironment(c0, key, payload.EnvironmentTier,
                                         payload.ProjectID, threshold)
        c2 == UpdateOperationLog(c1, key, timestamp, payload.Operation)
        c3 == IF IsEscalation(payload)
              THEN LET i1 == IncrementDrift(c2, key)
                       i2 == IF payload.PlanOutput # ""
                             THEN StorePlanOutput(i1, key, payload.PlanOutput)
                             ELSE i1
                   IN  BreachAlone(i2, env, i1.store[key].driftIncrement)
              ELSE IF IsResolution(payload) THEN ResetAlone(c2, env)
              ELSE c2
    IN  IF c3.err # "" THEN c3 ELSE GetEnvironmentData(c3, key)

\* the store and the tracker after report a and then report b, processed
\* one after the other from the empty store
InOrder(a, b) ==
    LET c1 == ProcessAlone([k \in Keys |-> EmptyHash],
                           [p \in TrackerProjects |-> <<>>], a)
        c2 == ProcessAlone(c1.store, c1.tracker, b)
    IN  <<c2.store, c2.tracker>>

\* since the start, two reports were received, both for key k, the second
\* while the first was in progress: one drift plan, which left an issue,
\* and one resolving report; and both have been answered
OneEachAnswered(k) ==
    /\ Quiet
    /\ Received = 2
    /\ hist[k].reports = 2
    /\ ~hist[k].serial
    /\ ~hist[k].fresh
    /\ IssuesOf(tracker, k) # {}

\* C33: a drift plan and a resolving report for one key whose calls
\* interleave, without failures: once both are answered, the store and the
\* tracker are as one of the two orders of the reports leaves them; the
\* record does not name an open issue while driftIncrement is 0, and
\* issueID is not empty while issueURL is set.
C33_AsOneOfTwoOrders ==
    \A k \in Keys :
        OneEachAnswered(k)
        => /\ \E a \in ConcReports : \E b \in ConcReports :
                  /\ ScheduledDriftPlan(a) /\ ResolvingRun(b)
                  /\ <<store, tracker>> \in {InOrder(a, b), InOrder(b, a)}
           /\ ~(/\ store[k].driftIncrement = 0
                /\ store[k].issueID # <<>>
                /\ IssueIsOpen(tracker, 1, Atoi(store[k].issueID).val))
           /\ ~(store[k].issueID = <<>> /\ store[k].issueURL # NoUrl)

\* C34: a resolving report that is answered with success, no other request
\* being in progress meanwhile, leaves driftIncrement at 0, and the issue
\* that the record referenced before the report is not open after it.
C34_SuccessfulResetClosedIssue ==
    [][(/\ Alone(last') /\ ResolvingRun(last'.payload)
        /\ last'.status = 200)
       => LET k   == KeyOf(last'.payload)
              st0 == last'.store0
              url == Tracked(st0, k)
          IN  /\ store'[k].driftIncrement = 0
              /\ (st0[k].issueID # <<>> /\ url # NoUrl)
                 => ~IssueIsOpen(tracker', url[1], url[2])]_vars

\* C35: every close call and every description update that a request
\* makes addresses an issue that the engine created earlier for the
\* request's key, whatever project id the report carries.
C35_OnlyOwnIssuesTouched ==
    [][(/\ IsCall(last')
        /\ CallOf(last').op \in {"PutClose", "PutDescription"}
        /\ Effective(last'))
       => <<CallOf(last').project, CallOf(last').iid>>
              \in IssuesOf(tracker, KeyOf(last'.payload))]_vars

\* the name contains the delimiter
HasDelimiter(name) == \E i \in 1..Len(name) : SubSeq(name, i, i) = ":"

\* the repository name and the environment of a step
NamesOf(l) == <<l.payload.RepoName, l.payload.Environment>>

\* none of the names of two steps contains the delimiter
PlainNames(l1, l2) ==
    /\ ~HasDelimiter(l1.payload.RepoName) /\ ~HasDelimiter(l1.payload.Environment)
    /\ ~HasDelimiter(l2.payload.RepoName) /\ ~HasDelimiter(l2.payload.Environment)

\* C36: two different (repository, environment) pairs in which no name
\* contains ":" get different keys, and the report of one leaves the
\* record of the other as it was; two different pairs that get the same
\* key have a name that contains ":", and the report of the second, after
\* the report of the first was answered, reads and writes the record that
\* the first left.
C36_KeyInjectiveWithoutDelimiter ==
    [][/\ (/\ last.act = "key" /\ last'.act = "key"
           /\ NamesOf(last) # NamesOf(last')
           /\ PlainNames(last, last'))
          => last'.err # last.err
       /\ Alone(last')
          => LET k2  == GenerateKey(last'.payload.RepoName, last'.payload.Environment)
                 st0 == last'.store0
             IN  /\ \A n \in SharedNames :
                        LET k1    == GenerateKey(n[1], n[2])
                            plain == /\ ~HasDelimiter(n[1]) /\ ~HasDelimiter(n[2])
                                     /\ ~HasDelimiter(last'.payload.RepoName)
                                     /\ ~HasDelimiter(last'.payload.Environment)
                        IN  n # NamesOf(last') =>
                                /\ plain => /\ k1 # k2
                                            /\ store'[k1] = st0[k1]
                                /\ k1 = k2 => ~plain
                 /\ (hist[k2].serial /\ hist[k2].first # NamesOf(last'))
                    => /\ GenerateKey(hist[k2].first[1], hist[k2].first[2]) = k2
                       /\ st0[k2].exists
                       /\ store'[k2].environmentTier = st0[k2].environmentTier
                       /\ store'[k2].driftIncrement = st0[k2].driftIncrement + 1
                       /\ last'.before = st0[k2].driftIncrement]_vars

\* C36 witness: the drift plan of repository "a", environment "b:c" took
\* to 2 the count of the record that the drift plan of repository "a:b",
\* environment "c" had created, with that report's tier
C36_Witness ==
    /\ Alone(last) /\ last.status = 200
    /\ last.payload.RepoName = "a" /\ last.payload.Environment = "b:c"
    /\ last.payload.EnvironmentTier = "nonprod"
    /\ GenerateKey("a:b", "c") = GenerateKey("a", "b:c")
    /\ hist["a:b:c"].first = <<"a:b", "c">>
    /\ hist["a:b:c"].reports = 2
    /\ store["a:b:c"].environmentTier = "prod"
    /\ last.before = 1
    /\ store["a:b:c"].driftIncrement = 2

\* C37: an accepted report for an existing record that is neither a
\* scheduled plan with changes on the comparison branch nor a resolving
\* report writes the record's log and nothing else: driftIncrement,
\* planOutput, issueID, issueURL, the tier, the project id and the
\* threshold stay as they were, and no call goes to the tracker.  Call by
\* call: such a report checks the record, writes the log and reads the
\* record for the answer.  And processed with nothing else in progress it
\* leaves the store and the tracker as they were but for the log.
C37_OtherReportsOnlyLog ==
    [][/\ (/\ IsCall(last')
           /\ store[KeyOf(last'.payload)].exists
           /\ ~ScheduledDriftPlan(last'.payload)
           /\ ~ResolvingRun(last'.payload))
          => LET k == KeyOf(last'.payload)
             IN  /\ CallOf(last').op \in {"Exists", "HMSetLog", "HGetAll"}
                 /\ tracker' = tracker
                 /\ store'[k] = [store[k] EXCEPT !.log = store'[k].log]
                 /\ \A k2 \in DOMAIN store : k2 # k => store'[k2] = store[k2]
       /\ (/\ Alone(last')
           /\ last'.store0[KeyOf(last'.payload)].exists
           /\ ~ScheduledDriftPlan(last'.payload)
           /\ ~ResolvingRun(last'.payload))
          => LET k   == KeyOf(last'.payload)
                 pl  == last'.payload
                 st0 == last'.store0
             IN  /\ TrackerCalls(last'.calls) = {}
                 /\ tracker' = last'.tracker0
                 /\ store'[k] = [st0[k] EXCEPT !.log = store'[k].log]
                 /\ store'[k].log = LogEntry(IF pl.Timestamp = "" THEN Now
                                             ELSE pl.Timestamp, pl.Operation)
                 /\ \A k2 \in DOMAIN store : k2 # k => store'[k2] = st0[k2]
                 /\ last'.status = 200]_vars

\* C37 witness: a plan with changes that was not scheduled, carrying a
\* plan output, another tier and another threshold, was processed for a
\* record with a count of 1, an open issue and a stored plan output; the
\* log names it and the rest of the record is as the drift plan left it
C37_Witness ==
    /\ Alone(last) /\ last.status = 200
    /\ last.payload.Operation = "plan" /\ last.payload.ExitCode = 2
    /\ ~last.payload.Scheduled
    /\ last.payload.PlanOutput = "o1"
    /\ last.payload.EnvironmentTier = "nonprod"
    /\ store["svc:prod"].log = LogEntry(Now, "plan")
    /\ store["svc:prod"].driftIncrement = 1
    /\ store["svc:prod"].planOutput = "o2"
    /\ store["svc:prod"].environmentTier = "prod"
    /\ store["svc:prod"].driftThreshold = <<"1">>
    /\ store["svc:prod"].issueID = <<"1">>
    /\ IssueIsOpen(tracker, 1, 1)

\* the reply counts as delivered: no transport error and a status 2xx
Answered2xx(l) == l.err = "" /\ l.status >= 200 /\ l.status < 300

\* C38: sendWebhook makes at most 3 attempts and returns: an attempt is
\* made only while fewer than 3 were made and none was answered 2xx; an
\* attempt answered 2xx is the last; after a transport error or another
\* status the sender waits 1 s after the first attempt and 2 s after the
\* second and tries again, and after the third it returns to main, which
\* goes on to its exit as it does after a delivery; the wrapper always
\* reaches its exit.
C38_AtMostThreeAttempts ==
    /\ [][last'.act = "attempt"
          => LET c == procs["cli"]
                 d == procs'["cli"]
             IN  /\ c.pc = "Do"
                 /\ c.attempts < 3 /\ ~c.delivered
                 /\ d.attempts = c.attempts + 1
                 /\ IF Answered2xx(last')
                    THEN d.pc = "Exit" /\ d.delivered /\ d.waited = c.waited
                    ELSE IF c.attempts < 2
                    THEN /\ d.pc = "Do" /\ ~d.delivered
                         /\ d.waited = Append(c.waited, c.attempts + 1)
                    ELSE /\ d.pc = "Exit" /\ ~d.delivered
                         /\ d.waited = <<1, 2>>
                 /\ d.exitCode = c.exitCode /\ d.kind = c.kind]_vars
    /\ [][last'.act = "exit"
          => /\ procs["cli"].attempts <= 3
             /\ procs'["cli"].exit =
                    IF procs["cli"].kind = "error" THEN 1 ELSE 0]_vars
    /\ <>(procs["cli"].pc = "exited")

\* C38 witness: three attempts failed, a transport error the last; the
\* sender waited 1 s and 2 s, and the wrapper exited with 0 after a plan
\* that ended without error
C38_Witness ==
    /\ procs["cli"].pc = "exited"
    /\ procs["cli"].operation = "plan"
    /\ procs["cli"].kind = "nil"
    /\ procs["cli"].attempts = 3
    /\ ~procs["cli"].delivered
    /\ procs["cli"].waited = <<1, 2>>
    /\ procs["cli"].exit = 0

\* C39: the wrapper exits with the exit code of the terraform command it
\* ran, whether or not a webhook was sent.
C39_ExitCodeIsTerraforms ==
    (/\ procs["cli"].pc = "exited"
     /\ procs["cli"].kind \in {"nil", "ExitError"})
    => procs["cli"].exit = procs["cli"].terraform

\* runs of white space
\* s is white space from position i to position j
AllSpace(s, i, j) == \A n \in i..j : s[n] \in WhiteSpace

\* the header is "Bearer ", then the token with white space around it
BearerOf(authHeader, token) ==
    /\ HasPrefix(authHeader, Chars("Bearer "))
    /\ \E i \in 8..(Len(authHeader) + 1) :
           /\ AllSpace(authHeader, 8, i - 1)
           /\ i + Len(token) - 1 <= Len(authHeader)
           /\ SubSeq(authHeader, i, i + Len(token) - 1) = token
           /\ AllSpace(authHeader, i + Len(token), Len(authHeader))

\* C40 as stated: with authentication enabled, a request is handed to
\* HandleEnvironments only if its Authorization header is "Bearer "
\* followed by exactly the configured token.
C40_OnlyExactBearerHeader ==
    [][(/\ last'.act \in {"receive", "step", "report"}
        /\ procs[Server].EnableAuthentication)
       => last'.payload.Authorization
              = Chars("Bearer ") \o procs[Server].BearerToken]_vars

\* C40: with authentication enabled, a request is handed to
\* HandleEnvironments only if a token is configured and its Authorization
\* header is "Bearer " followed by that token, with or without white space
\* before and after the token; a request without header, with another
\* scheme, with no token or with another token is answered 401 and the
\* store and the tracker stay as they were; with authentication enabled
\* and no token configured the server does not start and no request is
\* answered.
C40_OnlyBearerOfConfiguredToken ==
    [][/\ (/\ last'.act \in {"receive", "step", "report"}
           /\ procs[Server].EnableAuthentication)
          => /\ procs[Server].BearerToken # <<>>
             /\ BearerOf(last'.payload.Authorization,
                         procs[Server].BearerToken)
       /\ last'.act = "auth"
          => /\ last'.status = 401
             /\ store' = store /\ tracker' = tracker
             /\ procs[Server].EnableAuthentication
             /\ ~BearerOf(last'.payload.Authorization,
                          procs[Server].BearerToken)
       /\ ~(procs[Server].EnableAuthentication
            /\ procs[Server].BearerToken = <<>>)]_vars

\* C40 witness: with the token "secret" configured, the request whose
\* header has two blanks before the token was handed on, and its drift
\* plan created an issue
C40_Witness ==
    /\ procs[Server].EnableAuthentication
    /\ procs[Server].BearerToken = Chars("secret")
    /\ Alone(last) /\ last.status = 200
    /\ last.payload.Authorization = Chars("Bearer  secret")
    /\ ScheduledDriftPlan(last.payload)
    /\ store["svc:prod"].issueID = <<"1">>
    /\ IssueIsOpen(tracker, 1, 1)

====
